---------------------------- MODULE Spec2Model ----------------------------
(***************************************************************************)
(* Andromeda voice assistant: the session state machine                    *)
(* (andromeda/state_machine.py), the wake-word detection latch             *)
(* (andromeda/wake_word.py) and the orchestrator's per-state handlers      *)
(* with the barge-in monitor and the streaming playback pipeline           *)
(* (andromeda/main.py, andromeda/tts.py, andromeda/agent.py), and the      *)
(* audio capture callback with its listeners and recording buffer          *)
(* (andromeda/audio_capture.py, andromeda/vad.py).                         *)
(***************************************************************************)
EXTENDS Integers, Sequences, FiniteSets, TLC

(***************************************************************************)
(* AssistantState and the transition table                                 *)
(***************************************************************************)
AssistantState == {"IDLE", "LISTENING", "PROCESSING", "SPEAKING", "ERROR"}

TRANSITIONS ==
    [s \in AssistantState |->
        CASE s = "IDLE"       -> {"LISTENING"}
          [] s = "LISTENING"  -> {"PROCESSING", "IDLE", "ERROR"}
          [] s = "PROCESSING" -> {"SPEAKING", "IDLE", "ERROR"}
          [] s = "SPEAKING"   -> {"IDLE", "LISTENING", "ERROR"}
          [] s = "ERROR"      -> {"IDLE"}]

\* A value a handler may return that is no AssistantState (None, a string ...)
NotAState == "NOT_A_STATE"

\* What one invocation of a handler can produce: a returned value, an
\* exception (subclass of Exception), or asyncio.CancelledError
HandlerOutcomes == AssistantState \cup {NotAState, "raise", "cancel"}

\* Bound: number of transition callbacks that may be registered
MaxCallbacks == 2

NoCall == [from |-> "none", req |-> "none", fired |-> 0, cb_raised |-> FALSE]

\* Bound: worker threads that can sit in wait_for_detection at one time
MaxWaiters == 2

\* Bound: 100 ms chunks of one synthesized clip (tts.py _write_chunks)
ChunksPerUnit == 2

\* Bound: sentence units the agent produces in one turn
MaxUnits == 3

\* Bound: capacity of the sentence queue (asyncio.Queue(maxsize=32) in main.py)
QueueMax == 2

\* Bound: frames the input stream delivers to _audio_callback
MaxFrames == 3

\* Bound: callables registered per listener list
MaxListeners == 2

\* Bound: frames a recording can hold when the LISTENING wait ends
MaxRecorded == 1

\* ring_size of the ring buffer (3 s of chunks in audio_capture.py), scaled
RingSize == 2

\* min_samples of the LISTENING handlers, in frames (scaled)
MinSamples == 1

\* AudioRouteMode
AudioRouteMode == {"NORMAL", "MUTED", "STOP_ONLY"}

\* The callables that are registered as frame listeners: process_frame of
\* WakeWordDetector, VoiceActivityDetector and StopWordListener
Listeners == {"wake_word", "vad", "stop_word"}

\* The positional parameters process_frame of each listener requires
Params == [l \in Listeners |-> IF l = "vad" THEN 2 ELSE 1]

\* The arguments _audio_callback passes to a listener: cb(frame_bytes)
CallbackArgs == 1

\* Bound: the clock stops after MaxTime ticks
MaxTime == 14

\* Ticks per second: process_frame decays once `elapsed_since_decay >= 1.0`
Second == 4

\* audio.chunk_ms in ticks: one period that divides the second (as 10 and
\* 20 ms do) and one that does not (as the default of 30 ms)
ChunkPeriods == {2, 3}

DefaultChunk == 3

\* vad.max_recording_sec and vad.silence_timeout_sec, in ticks
MaxRecordingTicks == 10

SilenceTimeoutTicks == 3

\* vad.energy_decay_rate = DecayNum / DecayDen; thresholds and frame
\* energies are fixed-point numbers with Scale units to 1.0
DecayNum == 19

DecayDen == 20

Scale == 8000

\* speech_energy * energy_threshold_factor as the handlers pass it to
\* set_energy_threshold: 0.0 or a positive level
Thresholds == {0, 100 * Scale}

\* The RMS energy of a captured frame
FrameRms == {90 * Scale, 100 * Scale, 150 * Scale}

\* self._vad.is_speech(frame_bytes, sample_rate): True, False, or it raises
Classified == {"speech", "silence", "error"}

\* No LISTENING session yet: the handler's position, the speech frames
\* recorded, the ticks from the last speech frame to the last frame, whether
\* speech came first and no frame was gated, failed or missed, how the wait ended,
\* and the state the handler returned
NoSession ==
    [pc |-> "idle", speech |-> 0, last |-> 0, quiet |-> 0, clean |-> TRUE,
     how |-> "none", out |-> "none"]

\* _TTS_CACHE_MAX (64 in tts.py), scaled
TtsCacheMax == 2

\* The phrases that are spoken
Words == {"a", "b", "c"}

\* A text to speak: a phrase, as typed or capitalised, bare or with
\* surrounding blanks
Texts == [word : Words, upper : BOOLEAN, padded : BOOLEAN]

\* _cache_key(text): text.strip().lower()
CacheKey(t) == [word |-> t.word, upper |-> FALSE, padded |-> FALSE]

CacheKeys == { CacheKey(t) : t \in Texts }

\* The results one text can be synthesized to (the engine samples noise):
\* samples and sample rate
Takes == {1, 2}

\* No text, no key
NoText == [word |-> "none", upper |-> FALSE, padded |-> FALSE]

NoAudio == [text |-> NoText, take |-> 0, faded |-> FALSE]

NoLookup ==
    [op |-> "none", text |-> NoText, audio |-> NoAudio, hit |-> FALSE,
     synth |-> FALSE, shared |-> FALSE, evicted |-> NoText]

\* `for _ in range(5)` of the two tool loops
ToolRounds == 5

\* Tool calls one model message can carry (scaled)
MaxToolCalls == 2

\* What _chat_request can produce: a message with text only, a message
\* with tool calls, or an exception of the HTTP client
ChatReplies == {"text", "tools", "connect_error", "timeout", "error"}

\* No tool loop is running: position, process or process_streaming, loop
\* iterations begun, tool calls of the message still to run, used_tools,
\* messages appended, the reply of the last loop request, model requests
\* made, and the text returned
NoToolLoop ==
    [pc |-> "none", streaming |-> FALSE, rounds |-> 0, pending |-> 0,
     used_tools |-> FALSE, msgs |-> 0, last |-> "none", requests |-> 0,
     result |-> "none"]

\* The message process / process_streaming return when the request raised
ErrorMessage(reply) ==
    CASE reply = "connect_error" -> "OLLAMA_UNREACHABLE"
      [] reply = "timeout" -> "OLLAMA_TIMEOUT"
      [] OTHER -> "GENERIC_ERROR_RETRY"

\* The registry is modelled up to this many intents
MaxIntents == 2

\* The pattern lists an intent is registered with: a pattern is the word it
\* searches for (compiled with re.IGNORECASE)
PatternLists == {<<"a">>, <<"b">>, <<"a", "b">>, <<"b", "a">>}

\* A handler: its name, and whether calling it raises
IntentHandlers == [name : {"h1", "h2"}, raises : BOOLEAN]

\* The fixed args of an intent (`args or {}`)
IntentArgs == {"{}", "volume_up"}

\* What match_and_execute returns: None, str(handler(args)), or
\* GENERIC_ERROR_RETRY
NoResult == [kind |-> "None", by |-> "none", args |-> "none"]

\* _intents = [] at import, no call made yet
NoIntents ==
    [intents |-> <<>>, op |-> "none", text |-> NoText, seen |-> <<>>,
     hit |-> 0, pattern |-> 0, called |-> <<>>, result |-> NoResult]

\* No frame seen by process_frame yet
NoGate == [cls |-> "none", rms |-> 0]

\* _CIRCUIT_FAIL_THRESHOLD
CircuitFailThreshold == 3

\* _CIRCUIT_OPEN_SEC = 20.0, in ticks of the client's clock
CircuitOpenTicks == 3

\* Bound: the client's clock (time.monotonic) is followed up to this tick
HttpMaxTime == 7

\* Bound: failures are counted up to this number
MaxFails == 5

\* The `retries` argument of request_with_retry: 0 (web_search's
\* connectivity check) or the default 2
Retries == {0, 2}

\* What one attempt meets: a response below 400; a connection error, a
\* timeout, a network error or HTTP 429/5xx; any other HTTP error status
AttemptOutcomes == {"ok", "retryable", "fatal"}

\* _circuit_state = {} at import (no entry reads as fails 0, open_until 0),
\* no call made yet; tripped_at is the tick of the last failure that made
\* the count reach the threshold (-1: none yet)
NoHttp ==
    [fails |-> 0, open_until |-> 0, time |-> 0, pc |-> "idle", attempt |-> 0,
     retries |-> 0, step |-> "none", tripped_at |-> -1]

\* StopWordListener.__init__: no model, latch clear, inactive, threshold 0.0;
\* qualified: since the last start() a frame processed while active passed
\* the energy gate and scored above the detection threshold; wait: the
\* timeout of the wait_for_detection call in progress; ret: what the last
\* wait_for_detection returned
NoStopWord ==
    [model |-> FALSE, detected |-> FALSE, is_active |-> FALSE,
     energy_threshold |-> 0, qualified |-> FALSE, op |-> "none",
     wait |-> "none", ret |-> "none"]

Waiters == 1..MaxWaiters

\* The end-of-stream sentinel (None) on the sentence queue
END == 0

\* No PROCESSING handler has just returned
NoTurn == [tasks_done |-> TRUE, waits_done |-> TRUE, barged |-> FALSE]

\* Nothing played yet, no sentinel put yet
NoUnits == [played |-> <<>>, ahead |-> <<>>]

FreeWaiter ==
    [pc |-> "free", finite |-> FALSE, owner |-> "none", det |-> FALSE,
     after_sd |-> FALSE]

VARIABLES
    \* ---- StateMachine
    state,        \* StateMachine._state
    handlers,     \* StateMachine._handlers: the states that have a handler
    n_callbacks,  \* len(StateMachine._on_transition)
    run_status,   \* run(): "running", or how it ended: "cancelled", "exception"
    last_call,    \* the last transition_to call: state before, request, callbacks invoked
    last_handler, \* the last handler invocation: state it ran for, its outcome
    \* ---- WakeWordDetector
    detected,     \* WakeWordDetector._detected (threading.Event)
    shutdown_flag,\* WakeWordDetector._shutdown
    waiters,      \* worker threads inside wait_for_detection
    sd_pc,        \* position inside shutdown(): "none", "flagged", "done"
    sd_calls,     \* shutdown() calls made (run()'s finally, VoiceAssistant.shutdown)
    \* ---- VoiceAssistant
    pc,           \* position of the running state handler
    cfg,          \* configuration: agent.streaming, follow-up enabled, sentence_silence > 0
    route_mode,   \* AudioCapture._route_mode
    is_follow_up, \* VoiceAssistant._is_follow_up
    tts_interrupted, \* VoiceAssistant._tts_interrupted
    mon_pc,       \* _monitor_interrupt task: "none", "poll", "done"
    mon_w,        \* the worker thread the monitor awaits
    \* ---- TextToSpeech
    stop_event,   \* TextToSpeech._stop_event
    sp_pc,        \* speak(): "none", "synth", "play", "done"
    sp_failed,    \* the last speak() of the running handler caught an exception of _speak
    wr_pc,        \* _write_chunks in its worker thread: "idle", "check", "done"
    wr_left,      \* chunks of the clip not yet written
    tts_pc,       \* speak_streamed task
    pre_pc,       \* _prefetch_next task: "none", "start", "synth", "done"
    pre_res,      \* result of the prefetch task / prefetch_result (0: None)
    cur_unit,     \* the unit speak_streamed is synthesizing or playing
    stream_opened,\* _speak_streamed_engine's stream_opened
    \* ---- AIAgent.process_streaming and the sentence queue
    sentence_queue,
    agent_pc,     \* "none", "pre", "try", "returned", "raised", "cancelled"
    next_unit,    \* the next unit the agent will produce
    \* ---- history of the current turn
    barge_in,     \* the monitor observed a detection in this PROCESSING turn
    late_chunk,   \* a chunk write was begun after the monitor's stop
    sentinel_put, \* an end-of-stream sentinel was put on this turn's queue
    units,        \* this turn's units: played so far, in the queue at the sentinel
    last_turn,    \* what was still running when the PROCESSING handler returned
    \* ---- history of the wake-word latch
    stale_latch,  \* the latch is set and was set before the last _handle_idle entry
    idle_dropped, \* the _handle_idle entry before this session cleared a set latch
    idle_read_stale, \* the thread _handle_idle awaits read a stale latch as a detection
    \* ---- the turn: recording, VAD, response (main.py, vad.py)
    is_recording,      \* AudioCapture._is_recording
    vad_active,        \* VoiceActivityDetector._is_active
    speech_detected,   \* VoiceActivityDetector._speech_detected
    recorded_audio,    \* len(VoiceAssistant._recorded_audio), in frames
    response_text,     \* VoiceAssistant._response_text
    thinking,          \* the thinking tone of AudioFeedback is playing
    route_calls,       \* mute()/unmute() calls of the running PROCESSING handler
    \* ---- AudioCapture (andromeda/audio_capture.py)
    ring_buffer,       \* AudioCapture._ring_buffer (deque(maxlen=ring_size))
    recording_buffer,  \* AudioCapture._recording_buffer
    on_audio_frame,    \* AudioCapture._on_audio_frame: the general listeners
    on_stop_word_frame,\* AudioCapture._on_stop_word_frame
    ac_lock,           \* holder of AudioCapture._lock: "none", "callback", "main"
    cb_pc,             \* _audio_callback: "idle", "lock", "append", "dispatch"
    cb_mode,           \* the callback's local `mode`
    cb_frame,          \* the frame of the current (or last) callback, 0: none yet
    cb_idx,            \* the next listener the dispatch loop calls
    next_frame,        \* the next frame the stream will capture
    got,               \* per listener: frames its body received in this callback
    calls,             \* per listener: calls the callback made to it
    raised_by,         \* listeners whose call raised in this callback
    cb_stored,         \* the callback appended its frame to the ring buffer
    rec_pc,            \* start_recording / stop_recording in the main thread
    rec_result,        \* what the last stop_recording returned (frames)
    appended,          \* frames the callback appended since the last start_recording
    unlocked,          \* shared fields that were read or written without the lock
    \* ---- VoiceActivityDetector in time (andromeda/vad.py)
    now,               \* time.monotonic(), in ticks
    chunk,             \* period of the input stream (audio.chunk_ms), in ticks
    frame_done,        \* the frame captured at `now` has been handled
    start_time,        \* VoiceActivityDetector._start_time
    last_speech_time,  \* VoiceActivityDetector._last_speech_time
    last_decay_time,   \* VoiceActivityDetector._last_decay_time
    energy_threshold,  \* VoiceActivityDetector._energy_threshold (fixed point)
    speech_ended,      \* VoiceActivityDetector._speech_ended (threading.Event)
    vad_op,            \* the last call made to the detector and what it met
    armed_threshold,   \* the threshold when start() armed the detector
    steady,            \* since start(): every frame was processed, no threshold set
    sess,              \* the LISTENING session in time: position, frames captured, outcome
    \* ---- the TTS audio cache (andromeda/tts.py)
    tts_cache,         \* TextToSpeech._cache: key -> (audio, sample_rate), NoAudio: absent
    cache_order,       \* TextToSpeech._cache_order
    use_order,         \* the cached keys from least to most recently looked up
    tts_ret,           \* the last call on the cache and the audio it returned
    \* ---- the tool loop of AIAgent (andromeda/agent.py)
    tool,              \* _complete_with_tools(_streaming): position, rounds, result
    \* ---- the fast-intent registry (andromeda/intent.py)
    intent,            \* _intents and the last match_and_execute call
    \* ---- the resilient HTTP client (andromeda/tools/http_client.py)
    http,              \* the circuit breaker of one host, the clock, the last call
    \* ---- StopWordListener (andromeda/stop_word.py)
    stopw,             \* _active, _detected, the frame history since start()
    \* ---- history of the detector's energy gate
    gate               \* the last frame process_frame got: classification, RMS

smVars == <<state, handlers, n_callbacks, run_status, last_call, last_handler>>
wwVars == <<detected, shutdown_flag, waiters, sd_pc, sd_calls>>
mainVars == <<pc, cfg, route_mode, is_follow_up, tts_interrupted>>
monVars == <<mon_pc, mon_w>>
spVars == <<stop_event, sp_pc, sp_failed, wr_pc, wr_left>>
stVars == <<tts_pc, pre_pc, pre_res, cur_unit, stream_opened>>
agVars == <<sentence_queue, agent_pc, next_unit>>
latchHist == <<stale_latch, idle_dropped, idle_read_stale>>
histVars == <<barge_in, late_chunk, sentinel_put, units, last_turn, latchHist>>

orchVars == <<wwVars, mainVars, monVars, spVars, stVars, agVars, histVars>>

listenVars == <<is_recording, vad_active, speech_detected, recorded_audio>>
turnVars == <<is_recording, vad_active, speech_detected, recorded_audio,
              response_text, thinking, route_calls>>
capVars == <<ring_buffer, recording_buffer, on_audio_frame, on_stop_word_frame,
             ac_lock, cb_pc, cb_mode, cb_frame, cb_idx, next_frame, got, calls,
             raised_by, cb_stored, rec_pc, rec_result, appended, unlocked>>

vadClock == <<now, chunk, frame_done>>
vadTimes == <<start_time, last_speech_time, last_decay_time>>

vadxVars ==
    <<vadClock, vadTimes, energy_threshold, speech_ended, vad_op,
      armed_threshold, steady, sess>>
cacheVars == <<tts_cache, cache_order, use_order, tts_ret>>

\* The components that are modelled on their own, outside the orchestrator
extVars == <<intent, http, stopw, gate>>
svcVars == <<vadxVars, cacheVars, tool, extVars>>

vars == <<smVars, orchVars, turnVars, capVars, svcVars>>

(***************************************************************************)
(* StateMachine.transition_to                                              *)
(***************************************************************************)
\* Mutant of transition_to: the request is not tested against TRANSITIONS
transition_to_always(s, t, n, cbRaises) ==
    [state |-> IF t \in AssistantState THEN t ELSE s,
     fired |-> n, raised |-> FALSE,
     call |-> [from |-> s, req |-> t, fired |-> n,
                    cb_raised |-> (cbRaises /\ n > 0)]]

\* The result of transition_to(t) in state s with n callbacks registered;
\* cbRaises: some registered callback raises when invoked.  The request is
\* rejected when t is not in TRANSITIONS[s]; callback exceptions are caught.
transition_to(s, t, n, cbRaises) ==
    IF t \in AssistantState /\ t \in TRANSITIONS[s]
    THEN [state |-> t, fired |-> n, raised |-> FALSE,
          call |-> [from |-> s, req |-> t, fired |-> n,
                    cb_raised |-> (cbRaises /\ n > 0)]]
    ELSE [state |-> s, fired |-> 0, raised |-> FALSE,
          call |-> [from |-> s, req |-> t, fired |-> 0, cb_raised |-> FALSE]]

(***************************************************************************)
(* StateMachine.run: what the loop does with the outcome of one handler    *)
(***************************************************************************)
\* Mutant of the except clause: a handler exception is not caught
RunExcept_propagate(s, n, cbRaises) ==
    [state |-> s, call |-> NoCall, status |-> "exception"]

\* The except clause of run(): transition_to(ERROR); an exception raised
\* there leaves run()
RunExcept(s, n, cbRaises) ==
    LET r == transition_to(s, "ERROR", n, cbRaises)
    IN  [state |-> r.state, call |-> r.call,
         status |-> IF r.raised THEN "exception" ELSE "running"]

\* One iteration of the loop body after the handler produced `out`
RunIteration(s, out, n, cbRaises) ==
    CASE out = "cancel" ->
            [state |-> s, call |-> NoCall, status |-> "cancelled"]
      [] out = "raise" -> RunExcept(s, n, cbRaises)
      [] OTHER ->
            LET r == transition_to(s, out, n, cbRaises)
            IN  IF r.raised
                THEN RunExcept(r.state, n, cbRaises)
                ELSE [state |-> r.state, call |-> r.call, status |-> "running"]

(***************************************************************************)
(* The state machine with arbitrary handlers                               *)
(***************************************************************************)
\* The configurations explored: everything on (streaming agent, follow-up
\* listening, a silence gap between sentences) and everything off
Configs ==
    { [streaming |-> b, follow_up |-> b, silence |-> b] : b \in BOOLEAN }

\* The state after construction of the components, the loop not yet entered
OrchInit ==
    /\ detected = FALSE
    /\ shutdown_flag = FALSE
    /\ waiters = [w \in Waiters |-> FreeWaiter]
    /\ sd_pc = "none"
    /\ sd_calls = 0
    /\ pc = "top"
    /\ cfg \in Configs
    /\ route_mode = "NORMAL"
    /\ is_follow_up = FALSE
    /\ tts_interrupted = FALSE
    /\ mon_pc = "none"
    /\ mon_w = 0
    /\ stop_event = FALSE
    /\ sp_pc = "none"
    /\ sp_failed = FALSE
    /\ wr_pc = "idle"
    /\ wr_left = 0
    /\ tts_pc = "none"
    /\ pre_pc = "none"
    /\ pre_res = 0
    /\ cur_unit = 0
    /\ stream_opened = FALSE
    /\ sentence_queue = <<>>
    /\ agent_pc = "none"
    /\ next_unit = 1
    /\ barge_in = FALSE
    /\ late_chunk = FALSE
    /\ sentinel_put = FALSE
    /\ units = NoUnits
    /\ last_turn = NoTurn
    /\ stale_latch = FALSE
    /\ idle_dropped = FALSE
    /\ idle_read_stale = FALSE
    /\ is_recording = FALSE
    /\ vad_active = FALSE
    /\ speech_detected = FALSE
    /\ recorded_audio = 0
    /\ response_text = ""
    /\ thinking = FALSE
    /\ route_calls = <<>>
    /\ ring_buffer = <<>>
    /\ recording_buffer = <<>>
    /\ on_stop_word_frame = <<>>
    /\ ac_lock = "none"
    /\ cb_pc = "idle"
    /\ cb_mode = "NORMAL"
    /\ cb_frame = 0
    /\ cb_idx = 1
    /\ next_frame = 1
    /\ got = [l \in Listeners |-> 0]
    /\ calls = [l \in Listeners |-> 0]
    /\ raised_by = {}
    /\ cb_stored = FALSE
    /\ rec_pc = "none"
    /\ rec_result = <<>>
    /\ appended = <<>>
    /\ unlocked = {}
    /\ now = 0
    /\ frame_done = FALSE
    /\ start_time = 0
    /\ last_speech_time = 0
    /\ last_decay_time = 0
    /\ energy_threshold = 0
    /\ speech_ended = FALSE
    /\ vad_op = "none"
    /\ armed_threshold = 0
    /\ steady = FALSE
    /\ sess = NoSession
    /\ tts_cache = [k \in CacheKeys |-> NoAudio]
    /\ cache_order = <<>>
    /\ use_order = <<>>
    /\ tts_ret = NoLookup
    /\ tool = NoToolLoop
    /\ intent = NoIntents
    /\ http = NoHttp
    /\ stopw = NoStopWord
    /\ gate = NoGate

\* StateMachine.__init__
SMInit ==
    /\ state = "IDLE"
    /\ handlers = {}
    /\ n_callbacks = 0
    /\ run_status = "running"
    /\ last_call = NoCall
    /\ last_handler = [for |-> "none", out |-> "none"]
    /\ OrchInit
    /\ cfg = [streaming |-> TRUE, follow_up |-> TRUE, silence |-> TRUE]
    /\ on_audio_frame = <<>>
    /\ chunk = DefaultChunk

\* register_handler(state, handler)
RegisterHandler(s) ==
    /\ s \notin handlers
    /\ handlers' = handlers \cup {s}
    /\ UNCHANGED <<state, n_callbacks, run_status, last_call, last_handler, orchVars>>
    /\ UNCHANGED <<turnVars, capVars, svcVars>>

\* on_transition(callback)
OnTransition ==
    /\ n_callbacks < MaxCallbacks
    /\ n_callbacks' = n_callbacks + 1
    /\ UNCHANGED <<state, handlers, run_status, last_call, last_handler, orchVars>>
    /\ UNCHANGED <<turnVars, capVars, svcVars>>

\* Mutant of the missing-handler branch: no transition is requested
RunNoHandler_skip(cbRaises) ==
    /\ run_status = "running"
    /\ state \notin handlers
    /\ last_handler' = [for |-> state, out |-> "missing"]
    /\ UNCHANGED <<state, last_call, run_status, handlers, n_callbacks>>
    /\ UNCHANGED <<orchVars, turnVars, capVars, svcVars>>

\* run(): no handler for the current state
RunNoHandler(cbRaises) ==
    /\ run_status = "running"
    /\ state \notin handlers
    /\ LET r == transition_to(state, "IDLE", n_callbacks, cbRaises)
       IN  /\ state' = r.state
           /\ last_call' = r.call
           /\ run_status' = IF r.raised THEN "exception" ELSE "running"
    /\ last_handler' = [for |-> state, out |-> "missing"]
    /\ UNCHANGED <<handlers, n_callbacks, orchVars>>
    /\ UNCHANGED <<turnVars, capVars, svcVars>>

\* run(): the handler of the current state runs and produces `out`
RunHandler(out, cbRaises) ==
    /\ run_status = "running"
    /\ state \in handlers
    /\ LET r == RunIteration(state, out, n_callbacks, cbRaises)
       IN  /\ state' = r.state
           /\ run_status' = r.status
           /\ last_call' = IF r.call = NoCall THEN last_call ELSE r.call
    /\ last_handler' = [for |-> state, out |-> out]
    /\ UNCHANGED <<handlers, n_callbacks, orchVars>>
    /\ UNCHANGED <<turnVars, capVars, svcVars>>

\* run() is cancelled from outside while it sleeps after a missing handler
RunCancelled ==
    /\ run_status = "running"
    /\ state \notin handlers
    /\ run_status' = "cancelled"
    /\ UNCHANGED <<state, handlers, n_callbacks, last_call, last_handler, orchVars>>
    /\ UNCHANGED <<turnVars, capVars, svcVars>>

SMNext ==
    \/ \E s \in AssistantState : RegisterHandler(s)
    \/ OnTransition
    \/ \E b \in BOOLEAN : RunNoHandler(b)
    \/ \E out \in HandlerOutcomes, b \in BOOLEAN : RunHandler(out, b)
    \/ RunCancelled

SMSpec == SMInit /\ [][SMNext]_vars


(***************************************************************************)
(* WakeWordDetector (andromeda/wake_word.py)                               *)
(***************************************************************************)
\* A free worker-thread slot (the lowest), 0 when there is none
FreeSlot ==
    IF \E w \in Waiters : waiters[w].pc = "free"
    THEN CHOOSE w \in Waiters :
            /\ waiters[w].pc = "free"
            /\ \A v \in Waiters : waiters[v].pc = "free" => w <= v
    ELSE 0

\* wait_for_detection(timeout) is entered in a worker thread
\* (loop.run_in_executor); finite: the timeout is not None
StartWait(ws, w, owner, finite) ==
    [ws EXCEPT ![w] = [pc |-> "waiting", finite |-> finite,
                       owner |-> owner, det |-> FALSE,
                       after_sd |-> (sd_calls > 1 \/ sd_pc = "done")]]

\* The awaiting task was cancelled: the future is dropped, the thread runs on
Orphaned(ws, w) ==
    IF w \in Waiters /\ ws[w].owner = "monitor"
    THEN IF ws[w].pc = "done"
         THEN [ws EXCEPT ![w] = FreeWaiter]
         ELSE [ws EXCEPT ![w].owner = "orphan_monitor"]
    ELSE ws

\* wait_for_detection returns `ret` in thread w: the awaiting task finds the
\* result in the slot; a thread nobody awaits just ends
WaitReturn(ws, w, ret) ==
    IF ws[w].owner = "orphan_monitor"
    THEN [ws EXCEPT ![w] = FreeWaiter]
    ELSE [ws EXCEPT ![w].pc = "done", ![w].det = ret]

\* if self._shutdown: return False
ShutdownSeen(flag) == flag

\* self._detected.wait(timeout) returns (the latch is set, or the timeout ran
\* out) and the shutdown flag is tested
WaitWake(w) ==
    /\ waiters[w].pc = "waiting"
    /\ detected \/ waiters[w].finite
    /\ waiters' = IF ShutdownSeen(shutdown_flag)
                  THEN WaitReturn(waiters, w, FALSE)
                  ELSE [waiters EXCEPT ![w].pc = "checked"]
    /\ UNCHANGED <<smVars, detected, shutdown_flag, sd_pc, sd_calls, mainVars,
                   monVars, spVars, stVars, agVars, histVars>>
    /\ UNCHANGED <<turnVars, capVars, svcVars>>

\* detected = self._detected.is_set()
WaitIsSet(w) ==
    /\ waiters[w].pc = "checked"
    /\ waiters' = [waiters EXCEPT ![w].pc = "read", ![w].det = detected]
    /\ idle_read_stale' = IF waiters[w].owner = "idle"
                          THEN detected /\ stale_latch
                          ELSE idle_read_stale
    /\ UNCHANGED <<smVars, detected, shutdown_flag, sd_pc, sd_calls, mainVars,
                   monVars, spVars, stVars, agVars, barge_in, late_chunk,
                   sentinel_put, units, last_turn, stale_latch, idle_dropped>>
    /\ UNCHANGED <<turnVars, capVars, svcVars>>

\* self._detected.clear(); return detected
WaitClear(w) ==
    /\ waiters[w].pc = "read"
    /\ detected' = FALSE
    /\ waiters' = WaitReturn(waiters, w, waiters[w].det)
    /\ stale_latch' = FALSE
    /\ UNCHANGED <<smVars, shutdown_flag, sd_pc, sd_calls, mainVars,
                   monVars, spVars, stVars, agVars, barge_in, late_chunk,
                   sentinel_put, units, last_turn, idle_dropped, idle_read_stale>>
    /\ UNCHANGED <<turnVars, capVars, svcVars>>

\* reset(): self._detected.clear() (the model reset has no state here)
ResetLatch(d) == FALSE

\* The audio callback hands a frame to process_frame and a score exceeds the
\* threshold: self._detected.set().  Frames reach the detector only while
\* the capture stream runs and the route mode is NORMAL.
ProcessFrameDetect ==
    /\ route_mode = "NORMAL"
    /\ ~detected
    /\ detected' = TRUE
    /\ stale_latch' = FALSE
    /\ UNCHANGED <<smVars, shutdown_flag, waiters, sd_pc, sd_calls, mainVars,
                   monVars, spVars, stVars, agVars, barge_in, late_chunk,
                   sentinel_put, units, last_turn, idle_dropped, idle_read_stale>>
    /\ UNCHANGED <<turnVars, capVars, svcVars>>

\* shutdown(), first statement: self._shutdown = True.  Called from the
\* finally of VoiceAssistant.run() and again from VoiceAssistant.shutdown().
ShutdownFlag ==
    /\ sd_pc \in {"none", "done"}
    /\ sd_calls < 2
    /\ shutdown_flag' = TRUE
    /\ sd_pc' = "flagged"
    /\ sd_calls' = sd_calls + 1
    /\ UNCHANGED <<smVars, detected, waiters, mainVars,
                   monVars, spVars, stVars, agVars, histVars>>
    /\ UNCHANGED <<turnVars, capVars, svcVars>>

\* shutdown(), second statement: self._detected.set()
ShutdownSet ==
    /\ sd_pc = "flagged"
    /\ detected' = TRUE
    /\ sd_pc' = "done"
    /\ UNCHANGED <<smVars, shutdown_flag, waiters, sd_calls, mainVars,
                   monVars, spVars, stVars, agVars, histVars>>
    /\ UNCHANGED <<turnVars, capVars, svcVars>>

(***************************************************************************)
(* TextToSpeech.speak and _write_chunks (andromeda/tts.py)                 *)
(***************************************************************************)
\* Mutant of _write_chunks: the stop event is not tested before a chunk
StopSeen_ignore(stop) == FALSE

\* if self._stop_event.is_set(): break
StopSeen(stop) == stop

\* _write_chunks, one turn of the loop in the worker thread: test the stop
\* event, then self._playback_stream.write(chunk); a write error ends the
\* loop as the last chunk does
WriteChunk(ok) ==
    /\ wr_pc = "check"
    /\ IF StopSeen(stop_event)
       THEN /\ wr_pc' = "done"
            /\ UNCHANGED <<wr_left, late_chunk>>
       ELSE /\ wr_left' = IF wr_left = 1 \/ ~ok THEN 0 ELSE wr_left - 1
            /\ wr_pc' = IF wr_left = 1 \/ ~ok THEN "done" ELSE "check"
            /\ late_chunk' = (late_chunk \/ barge_in)
    /\ UNCHANGED <<smVars, wwVars, mainVars, monVars, stop_event, sp_pc,
                   sp_failed, stVars, agVars, barge_in, sentinel_put, units,
                   last_turn, latchHist>>
    /\ UNCHANGED <<turnVars, capVars, svcVars>>

\* speak(): _synthesize_cached returns (ok) and _play_chunked starts in a
\* worker thread (its first statement is the on_first_audio callback,
\* feedback.stop), or _speak raises and speak() logs it
SpeakSynth(ok) ==
    /\ run_status = "running"
    /\ sp_pc = "synth"
    /\ IF ok
       THEN /\ sp_pc' = "play"
            /\ wr_pc' = "check"
            /\ wr_left' = ChunksPerUnit
            /\ thinking' = FALSE
            /\ UNCHANGED sp_failed
       ELSE /\ sp_pc' = "done"
            /\ sp_failed' = TRUE
            /\ UNCHANGED <<wr_pc, wr_left, thinking>>
    /\ UNCHANGED <<smVars, wwVars, mainVars, monVars, stop_event, stVars,
                   agVars, histVars>>
    /\ UNCHANGED <<listenVars, response_text, route_calls, capVars, svcVars>>

\* speak(): _play_chunked has returned
SpeakPlayed ==
    /\ run_status = "running"
    /\ sp_pc = "play"
    /\ wr_pc = "done"
    /\ sp_pc' = "done"
    /\ wr_pc' = "idle"
    /\ wr_left' = 0
    /\ UNCHANGED <<smVars, wwVars, mainVars, monVars, stop_event, sp_failed,
                   stVars, agVars, histVars>>
    /\ UNCHANGED <<turnVars, capVars, svcVars>>

(***************************************************************************)
(* VoiceAssistant: the per-state handlers (andromeda/main.py)              *)
(***************************************************************************)
\* A handler finished with `out`; run() applies it and loops
HandlerDone(out) ==
    /\ LET r == RunIteration(state, out, n_callbacks, FALSE)
       IN  /\ state' = r.state
           /\ run_status' = r.status
           /\ last_call' = IF r.call = NoCall THEN last_call ELSE r.call
    /\ last_handler' = [for |-> state, out |-> out]
    /\ pc' = "top"
    /\ UNCHANGED <<handlers, n_callbacks>>

\* Mutant of _handle_idle: the detector is not reset on entry
IdleReset_skip(d) == d

\* _handle_idle, first statement: self._wake_word.reset()
IdleReset(d) == ResetLatch(d)

\* _handle_idle up to the await: reset the detector, unmute, clear the
\* follow-up flag, wait for the wake word in a worker thread (timeout=None)
IdleEnter ==
    /\ run_status = "running" /\ pc = "top" /\ state = "IDLE"
    /\ FreeSlot # 0
    /\ detected' = IdleReset(detected)
    /\ route_mode' = "NORMAL"
    /\ is_follow_up' = FALSE
    /\ waiters' = StartWait(waiters, FreeSlot, "idle", FALSE)
    /\ pc' = "idle_wait"
    /\ stale_latch' = IdleReset(detected)
    /\ idle_dropped' = (detected /\ ~IdleReset(detected))
    /\ idle_read_stale' = FALSE
    /\ last_turn' = NoTurn
    /\ sp_failed' = FALSE
    /\ UNCHANGED <<smVars, shutdown_flag, sd_pc, sd_calls, cfg, tts_interrupted,
                   monVars, stop_event, sp_pc, wr_pc, wr_left, stVars, agVars,
                   barge_in, late_chunk, sentinel_put, units>>
    /\ UNCHANGED <<turnVars, capVars, svcVars>>

\* The thread the IDLE handler awaits
IdleSlot == CHOOSE w \in Waiters : waiters[w].owner = "idle"

\* _handle_idle after the await: LISTENING on a detection, IDLE otherwise
IdleResult(det) == IF det THEN "LISTENING" ELSE "IDLE"

IdleResume ==
    /\ run_status = "running" /\ pc = "idle_wait"
    /\ \E w \in Waiters : waiters[w].owner = "idle" /\ waiters[w].pc = "done"
    /\ HandlerDone(IdleResult(waiters[IdleSlot].det))
    /\ waiters' = [waiters EXCEPT ![IdleSlot] = FreeWaiter]
    /\ UNCHANGED <<detected, shutdown_flag, sd_pc, sd_calls, cfg, route_mode,
                   is_follow_up, tts_interrupted, monVars, spVars, stVars,
                   agVars, histVars>>
    /\ UNCHANGED <<turnVars, capVars, svcVars>>

\* _speak_error up to the await of speak(): mute, then speak() clears the
\* stop event and starts synthesis
SpeakErrorBegin(nextPc) ==
    /\ route_mode' = "MUTED"
    /\ stop_event' = FALSE
    /\ sp_pc' = "synth"
    /\ sp_failed' = FALSE
    /\ pc' = nextPc

\* _handle_listening / _handle_follow_up_listening up to the await:
\* start_recording(), vad.start(), wait_for_speech_end in a worker thread
\* (timeout max_recording_sec + 1, or follow_up_timeout)
ListenEnter ==
    /\ run_status = "running" /\ pc = "top" /\ state = "LISTENING"
    /\ pc' = "listen_wait"
    /\ is_recording' = TRUE
    /\ vad_active' = TRUE
    /\ speech_detected' = FALSE
    /\ idle_dropped' = FALSE
    /\ UNCHANGED <<smVars, wwVars, cfg, route_mode, is_follow_up, tts_interrupted,
                   monVars, spVars, stVars, agVars, barge_in, late_chunk,
                   sentinel_put, units, last_turn, stale_latch, idle_read_stale>>
    /\ UNCHANGED <<recorded_audio, response_text, thinking, route_calls, capVars, svcVars>>

\* Mutant of the minimum-recording test: had_speech is not consulted
RecordingUsable_anysound(n, speech) == ~(n < MinSamples)

\* if len(self._recorded_audio) < min_samples or not self._vad.had_speech:
\* the recording is not usable
RecordingUsable(n, speech) == ~(n < MinSamples \/ ~speech)

\* After the wait: vad.stop(), stop_recording() (n frames were recorded;
\* speech: process_frame saw a speech frame during the wait), then the
\* minimum-recording test
ListenEnd(n, speech) ==
    /\ run_status = "running" /\ pc = "listen_wait"
    /\ vad_active' = FALSE
    /\ is_recording' = FALSE
    /\ recorded_audio' = n
    /\ speech_detected' = speech
    /\ IF RecordingUsable(n, speech)
       THEN /\ HandlerDone("PROCESSING")
            /\ UNCHANGED <<route_mode, is_follow_up, spVars>>
       ELSE IF is_follow_up
            THEN /\ HandlerDone("IDLE")
                 /\ is_follow_up' = FALSE
                 /\ UNCHANGED <<route_mode, spVars>>
            ELSE /\ SpeakErrorBegin("listen_retry")
                 /\ UNCHANGED <<smVars, is_follow_up, wr_pc, wr_left>>
    /\ UNCHANGED <<wwVars, cfg, tts_interrupted, monVars, stVars, agVars, histVars>>
    /\ UNCHANGED <<response_text, thinking, route_calls, capVars, svcVars>>

\* The retry prompt was spoken: unmute and return IDLE
ListenRetryDone ==
    /\ run_status = "running" /\ pc = "listen_retry" /\ sp_pc = "done"
    /\ sp_pc' = "none"
    /\ route_mode' = "NORMAL"
    /\ HandlerDone("IDLE")
    /\ UNCHANGED <<wwVars, cfg, is_follow_up, tts_interrupted, monVars,
                   stop_event, sp_failed, wr_pc, wr_left, stVars, agVars, histVars>>
    /\ UNCHANGED <<turnVars, capVars, svcVars>>

\* _handle_speaking: LISTENING in follow-up mode when follow-up is enabled
SpeakingResult(followUp) == IF followUp THEN "LISTENING" ELSE "IDLE"

HandleSpeaking ==
    /\ run_status = "running" /\ pc = "top" /\ state = "SPEAKING"
    /\ is_follow_up' = (cfg.follow_up \/ is_follow_up)
    /\ HandlerDone(SpeakingResult(cfg.follow_up))
    /\ last_turn' = NoTurn
    /\ sp_failed' = FALSE
    /\ route_calls' = <<>>
    /\ UNCHANGED <<wwVars, cfg, route_mode, tts_interrupted, monVars, stop_event,
                   sp_pc, wr_pc, wr_left, stVars, agVars, barge_in, late_chunk,
                   sentinel_put, units, latchHist>>
    /\ UNCHANGED <<listenVars, response_text, thinking, capVars, svcVars>>

\* Mutant of _handle_error: a failed recovery message is re-raised
HandleErrorResult_reraise(failed) == IF failed THEN "raise" ELSE "IDLE"

\* _handle_error: IDLE, whether or not speaking the message failed
HandleErrorResult(failed) == "IDLE"

\* _handle_error up to the await of _speak_error
ErrorEnter ==
    /\ run_status = "running" /\ pc = "top" /\ state = "ERROR"
    /\ SpeakErrorBegin("error_speak")
    /\ UNCHANGED <<smVars, wwVars, cfg, is_follow_up, tts_interrupted, monVars,
                   wr_pc, wr_left, stVars, agVars, histVars>>
    /\ UNCHANGED <<turnVars, capVars, svcVars>>

ErrorDone ==
    /\ run_status = "running" /\ pc = "error_speak" /\ sp_pc = "done"
    /\ sp_pc' = "none"
    /\ route_mode' = "NORMAL"
    /\ HandlerDone(HandleErrorResult(sp_failed))
    /\ UNCHANGED <<wwVars, cfg, is_follow_up, tts_interrupted, monVars,
                   stop_event, sp_failed, wr_pc, wr_left, stVars, agVars, histVars>>
    /\ UNCHANGED <<turnVars, capVars, svcVars>>

(***************************************************************************)
(* PROCESSING: _handle_processing, _process_standard, _process_streaming   *)
(***************************************************************************)
\* AudioCapture.monitor_only(): frames reach the wake-word detector again
\* during playback
MonitorOnlyRoute == "NORMAL"

\* The agent task has ended
AgentEnded(a) == a \in {"none", "returned", "raised", "cancelled"}

\* The units of a queue, in order, without the sentinel
Ahead(q) == SelectSeq(q, LAMBDA u : u # END)

\* process_streaming, finally: put_nowait(None); when the queue is full, drop
\* its oldest item and put the sentinel
FinallySentinel(q) ==
    IF Len(q) < QueueMax THEN Append(q, END) ELSE Append(Tail(q), END)

\* Mutant of the final test of _handle_processing: the flag is not consulted
ProcessingResult_ignore(interrupted) == "SPEAKING"

\* _handle_processing, last statements: IDLE when the turn was interrupted
ProcessingResult(interrupted) == IF interrupted THEN "IDLE" ELSE "SPEAKING"

\* _handle_processing up to the await of stt.transcribe
ProcEnter ==
    /\ run_status = "running" /\ pc = "top" /\ state = "PROCESSING"
    /\ pc' = "proc_stt"
    /\ UNCHANGED <<smVars, wwVars, cfg, route_mode, is_follow_up, tts_interrupted,
                   monVars, spVars, stVars, agVars, histVars>>
    /\ UNCHANGED <<turnVars, capVars, svcVars>>

\* transcribe raised: the handler raises
ProcTranscribeRaises ==
    /\ run_status = "running" /\ pc = "proc_stt"
    /\ HandlerDone("raise")
    /\ UNCHANGED <<wwVars, cfg, route_mode, is_follow_up, tts_interrupted,
                   monVars, spVars, stVars, agVars, histVars>>
    /\ UNCHANGED <<turnVars, capVars, svcVars>>

\* Empty transcript: speak the retry prompt
ProcEmptyTranscript ==
    /\ run_status = "running" /\ pc = "proc_stt"
    /\ SpeakErrorBegin("proc_retry")
    /\ UNCHANGED <<smVars, wwVars, cfg, is_follow_up, tts_interrupted, monVars,
                   wr_pc, wr_left, stVars, agVars, histVars>>
    /\ UNCHANGED <<turnVars, capVars, svcVars>>

ProcRetryDone ==
    /\ run_status = "running" /\ pc = "proc_retry" /\ sp_pc = "done"
    /\ sp_pc' = "none"
    /\ route_mode' = "NORMAL"
    /\ HandlerDone("SPEAKING")
    /\ UNCHANGED <<wwVars, cfg, is_follow_up, tts_interrupted, monVars,
                   stop_event, sp_failed, wr_pc, wr_left, stVars, agVars, histVars>>
    /\ UNCHANGED <<turnVars, capVars, svcVars>>

\* A fast intent matched: store its response, mute, speak the response
ProcFastIntent ==
    /\ run_status = "running" /\ pc = "proc_stt"
    /\ response_text' = "fast"
    /\ route_mode' = "MUTED"
    /\ route_calls' = <<"mute">>
    /\ stop_event' = FALSE
    /\ sp_pc' = "synth"
    /\ sp_failed' = FALSE
    /\ pc' = "proc_fast"
    /\ UNCHANGED <<smVars, wwVars, cfg, is_follow_up, tts_interrupted, monVars,
                   wr_pc, wr_left, stVars, agVars, histVars>>
    /\ UNCHANGED <<listenVars, thinking, capVars, svcVars>>

\* Mutant of the fast-intent branch: no unmute at all
FastUnmutes_never(failed) == FALSE

\* Mutant of the fast-intent branch: unmute only after a playback that
\* did not fail
FastUnmutes_onsuccess(failed) == ~failed

\* try: await self._tts.speak(fast_response) finally: self._audio.unmute()
FastUnmutes(failed) == TRUE

\* speak() is over (a playback error was logged by speak): unmute, SPEAKING
ProcFastDone ==
    /\ run_status = "running" /\ pc = "proc_fast" /\ sp_pc = "done"
    /\ sp_pc' = "none"
    /\ IF FastUnmutes(sp_failed)
       THEN /\ route_mode' = "NORMAL"
            /\ route_calls' = Append(route_calls, "unmute")
       ELSE UNCHANGED <<route_mode, route_calls>>
    /\ HandlerDone("SPEAKING")
    /\ UNCHANGED <<wwVars, cfg, is_follow_up, tts_interrupted, monVars,
                   stop_event, sp_failed, wr_pc, wr_left, stVars, agVars, histVars>>
    /\ UNCHANGED <<listenVars, response_text, thinking, capVars, svcVars>>

\* No fast intent, standard mode: clear the interrupted flag, play the
\* thinking tone, mute, await agent.process
ProcStandardBegin ==
    /\ run_status = "running" /\ pc = "proc_stt" /\ ~cfg.streaming
    /\ tts_interrupted' = FALSE
    /\ thinking' = TRUE
    /\ route_mode' = "MUTED"
    /\ pc' = "std_agent"
    /\ UNCHANGED <<smVars, wwVars, cfg, is_follow_up, monVars, spVars, stVars,
                   agVars, histVars>>
    /\ UNCHANGED <<listenVars, response_text, route_calls, capVars, svcVars>>

\* agent.process returned its text: store it, reset the detector,
\* monitor_only(), start the monitor task, speak the response
StdAgentReturned ==
    /\ run_status = "running" /\ pc = "std_agent"
    /\ FreeSlot # 0
    /\ detected' = ResetLatch(detected)
    /\ route_mode' = MonitorOnlyRoute
    /\ mon_pc' = "poll"
    /\ mon_w' = FreeSlot
    /\ waiters' = StartWait(waiters, FreeSlot, "monitor", TRUE)
    /\ stop_event' = FALSE
    /\ sp_pc' = "synth"
    /\ sp_failed' = FALSE
    /\ pc' = "std_speak"
    /\ stale_latch' = FALSE
    /\ response_text' = "agent"
    /\ UNCHANGED <<smVars, shutdown_flag, sd_pc, sd_calls, cfg, is_follow_up,
                   tts_interrupted, wr_pc, wr_left, stVars, agVars, barge_in,
                   late_chunk, sentinel_put, units, last_turn, idle_dropped,
                   idle_read_stale>>
    /\ UNCHANGED <<listenVars, thinking, route_calls, capVars, svcVars>>

\* agent.process raised: the except clause of _handle_processing speaks the
\* apology
StdAgentRaised ==
    /\ run_status = "running" /\ pc = "std_agent"
    /\ SpeakErrorBegin("proc_apology")
    /\ UNCHANGED <<smVars, wwVars, cfg, is_follow_up, tts_interrupted, monVars,
                   wr_pc, wr_left, stVars, agVars, histVars>>
    /\ UNCHANGED <<turnVars, capVars, svcVars>>

\* The end of the LLM path: monitor_task.cancel() and await (the worker
\* thread of the monitor's last poll is not waited for), the finally clause
\* (feedback.stop, unmute), and the handler's result
ProcFinish ==
    /\ LET ws == Orphaned(waiters, mon_w)
       IN  /\ waiters' = ws
           /\ last_turn' =
                [tasks_done |-> AgentEnded(agent_pc) /\ tts_pc \in {"none", "done"}
                                 /\ pre_pc \in {"none", "done"},
                 waits_done |-> \A w \in Waiters : ws[w].owner # "orphan_monitor",
                 barged |-> barge_in]
    /\ mon_pc' = "none"
    /\ mon_w' = 0
    /\ thinking' = FALSE
    /\ route_mode' = "NORMAL"
    /\ HandlerDone(ProcessingResult(tts_interrupted))
    /\ barge_in' = FALSE
    /\ sentinel_put' = FALSE
    /\ units' = NoUnits
    /\ UNCHANGED <<detected, shutdown_flag, sd_pc, sd_calls, cfg, is_follow_up,
                   tts_interrupted, late_chunk, latchHist>>

StdSpeakDone ==
    /\ run_status = "running" /\ pc = "std_speak" /\ sp_pc = "done"
    /\ sp_pc' = "none"
    /\ ProcFinish
    /\ UNCHANGED <<stop_event, sp_failed, wr_pc, wr_left, stVars, agVars>>
    /\ UNCHANGED <<listenVars, response_text, route_calls, capVars, svcVars>>

\* Mutant of the except clause: the response text is not replaced
ExceptResponseText_keep(old) == old

\* self._response_text = msg("core.generic_error_retry")
ExceptResponseText(old) == "apology"

\* _speak_error(apology) is over: store the apology as the response text,
\* then the finally clause and the handler's result
ProcApologyDone ==
    /\ run_status = "running" /\ pc = "proc_apology" /\ sp_pc = "done"
    /\ sp_pc' = "none"
    /\ response_text' = ExceptResponseText(response_text)
    /\ ProcFinish
    /\ UNCHANGED <<stop_event, sp_failed, wr_pc, wr_left, stVars, agVars>>
    /\ UNCHANGED <<listenVars, route_calls, capVars, svcVars>>

\* No fast intent, streaming mode: clear the interrupted flag, play the
\* thinking tone, create the queue, reset the detector, monitor_only(), start
\* the agent, playback and monitor tasks and await the agent task
ProcStreamingBegin ==
    /\ run_status = "running" /\ pc = "proc_stt" /\ cfg.streaming
    /\ FreeSlot # 0
    /\ tts_interrupted' = FALSE
    /\ sentence_queue' = <<>>
    /\ sentinel_put' = FALSE
    /\ units' = NoUnits
    /\ detected' = ResetLatch(detected)
    /\ route_mode' = MonitorOnlyRoute
    /\ agent_pc' = "pre"
    /\ next_unit' = 1
    /\ stop_event' = FALSE
    /\ tts_pc' = "next"
    /\ pre_pc' = "none"
    /\ pre_res' = 0
    /\ cur_unit' = 0
    /\ stream_opened' = FALSE
    /\ mon_pc' = "poll"
    /\ mon_w' = FreeSlot
    /\ waiters' = StartWait(waiters, FreeSlot, "monitor", TRUE)
    /\ pc' = "stream_agent"
    /\ stale_latch' = FALSE
    /\ thinking' = TRUE
    /\ response_text' = ""
    /\ UNCHANGED <<smVars, shutdown_flag, sd_pc, sd_calls, cfg, is_follow_up,
                   sp_pc, sp_failed, wr_pc, wr_left, barge_in, late_chunk,
                   last_turn, idle_dropped, idle_read_stale>>
    /\ UNCHANGED <<listenVars, route_calls, capVars, svcVars>>

\* _process_streaming raises before it has created a task (wake_word.reset()
\* clears the latch and then fails in the scoring model): the except clause of
\* _handle_processing speaks the apology
ProcStreamingRaises ==
    /\ run_status = "running" /\ pc = "proc_stt" /\ cfg.streaming
    /\ tts_interrupted' = FALSE
    /\ thinking' = TRUE
    /\ detected' = ResetLatch(detected)
    /\ stale_latch' = FALSE
    /\ SpeakErrorBegin("proc_apology")
    /\ UNCHANGED <<smVars, shutdown_flag, waiters, sd_pc, sd_calls, cfg,
                   is_follow_up, monVars, wr_pc, wr_left, stVars, agVars,
                   barge_in, late_chunk, sentinel_put, units, last_turn, idle_dropped,
                   idle_read_stale>>
    /\ UNCHANGED <<listenVars, response_text, route_calls, capVars, svcVars>>

\* _process_streaming after `await agent_task`: a cancellation is suppressed;
\* after an exception the sentinel is put by _process_streaming itself
StreamAgentAwaited ==
    /\ run_status = "running" /\ pc = "stream_agent"
    /\ agent_pc \in {"returned", "raised", "cancelled"}
    /\ IF agent_pc = "raised"
       THEN /\ Len(sentence_queue) < QueueMax
            /\ sentence_queue' = Append(sentence_queue, END)
            /\ sentinel_put' = TRUE
            /\ units' = [units EXCEPT !.ahead = Ahead(sentence_queue)]
       ELSE UNCHANGED <<sentence_queue, sentinel_put, units>>
    /\ response_text' = IF agent_pc = "returned" THEN "agent" ELSE response_text
    /\ pc' = "stream_tts"
    /\ UNCHANGED <<smVars, wwVars, cfg, route_mode, is_follow_up, tts_interrupted,
                   monVars, spVars, stVars, agent_pc, next_unit, barge_in,
                   late_chunk, last_turn, latchHist>>
    /\ UNCHANGED <<listenVars, thinking, route_calls, capVars, svcVars>>

\* _process_streaming after `await tts_task`
StreamTtsAwaited ==
    /\ run_status = "running" /\ pc = "stream_tts" /\ tts_pc = "done"
    /\ ProcFinish
    /\ tts_pc' = "none"
    /\ agent_pc' = "none"
    /\ sentence_queue' = <<>>
    /\ pre_pc' = "none"
    /\ pre_res' = 0
    /\ cur_unit' = 0
    /\ stream_opened' = FALSE
    /\ next_unit' = 1
    /\ UNCHANGED spVars
    /\ UNCHANGED <<listenVars, response_text, route_calls, capVars, svcVars>>

(***************************************************************************)
(* _monitor_interrupt                                                      *)
(***************************************************************************)
\* task.cancel() on the agent task: before the try of process_streaming the
\* CancelledError leaves the coroutine at once; inside the try its finally
\* puts the sentinel; a finished task is left alone
AgentCancelled(a) == IF a \in {"pre", "try"} THEN "cancelled" ELSE a

\* self._tts.stop_playback(): the stop event is set
MonitorStops(stop) == TRUE

\* The poll returned True: stop playback, flag the turn, cancel the agent
MonitorDetected ==
    /\ run_status = "running" /\ mon_pc = "poll"
    /\ waiters[mon_w].pc = "done" /\ waiters[mon_w].det
    /\ stop_event' = MonitorStops(stop_event)
    /\ tts_interrupted' = TRUE
    /\ barge_in' = TRUE
    /\ agent_pc' = AgentCancelled(agent_pc)
    /\ IF agent_pc = "try"
       THEN /\ sentence_queue' = FinallySentinel(sentence_queue)
            /\ sentinel_put' = TRUE
            /\ units' =
                 [units EXCEPT
                    !.ahead = Ahead(FinallySentinel(sentence_queue))]
       ELSE UNCHANGED <<sentence_queue, sentinel_put, units>>
    /\ mon_pc' = "done"
    /\ waiters' = [waiters EXCEPT ![mon_w] = FreeWaiter]
    /\ mon_w' = 0
    /\ UNCHANGED <<smVars, detected, shutdown_flag, sd_pc, sd_calls, pc, cfg,
                   route_mode, is_follow_up, sp_pc, sp_failed, wr_pc,
                   wr_left, stVars, next_unit, late_chunk, last_turn, latchHist>>
    /\ UNCHANGED <<turnVars, capVars, svcVars>>

\* The poll timed out: poll again with timeout 0.5 s.  The periodic reset of
\* the scoring model (every 10th poll) leaves the latch alone and has no
\* state here.
MonitorPollAgain ==
    /\ run_status = "running" /\ mon_pc = "poll"
    /\ waiters[mon_w].pc = "done" /\ ~waiters[mon_w].det
    /\ waiters' = StartWait(waiters, mon_w, "monitor", TRUE)
    /\ UNCHANGED <<smVars, detected, shutdown_flag, sd_pc, sd_calls, mainVars,
                   mon_pc, mon_w, spVars, stVars, agVars, histVars>>
    /\ UNCHANGED <<turnVars, capVars, svcVars>>

(***************************************************************************)
(* AIAgent.process_streaming                                               *)
(***************************************************************************)
\* The unit that carries the error message of the except clauses
ErrUnit == MaxUnits + 1

\* The awaits before the try (history compaction) are over
AgentEnterTry ==
    /\ run_status = "running" /\ agent_pc = "pre"
    /\ agent_pc' = "try"
    /\ UNCHANGED <<smVars, wwVars, mainVars, monVars, spVars, stVars,
                   sentence_queue, next_unit, histVars>>
    /\ UNCHANGED <<turnVars, capVars, svcVars>>

\* process_streaming raises before its try (agent not initialized)
AgentRaisesEarly ==
    /\ run_status = "running" /\ agent_pc = "pre"
    /\ agent_pc' = "raised"
    /\ UNCHANGED <<smVars, wwVars, mainVars, monVars, spVars, stVars,
                   sentence_queue, next_unit, histVars>>
    /\ UNCHANGED <<turnVars, capVars, svcVars>>

\* _queue_put(unit): put within the 1 s timeout
AgentPut ==
    /\ run_status = "running" /\ agent_pc = "try"
    /\ next_unit <= MaxUnits
    /\ Len(sentence_queue) < QueueMax
    /\ sentence_queue' = Append(sentence_queue, next_unit)
    /\ next_unit' = next_unit + 1
    /\ UNCHANGED <<smVars, wwVars, mainVars, monVars, spVars, stVars,
                   agent_pc, histVars>>
    /\ UNCHANGED <<turnVars, capVars, svcVars>>

\* _queue_put(unit): the queue stayed full for 1 s, the unit is dropped
AgentDrop ==
    /\ run_status = "running" /\ agent_pc = "try"
    /\ next_unit <= MaxUnits
    /\ Len(sentence_queue) = QueueMax
    /\ next_unit' = next_unit + 1
    /\ UNCHANGED <<smVars, wwVars, mainVars, monVars, spVars, stVars,
                   sentence_queue, agent_pc, histVars>>
    /\ UNCHANGED <<turnVars, capVars, svcVars>>

\* The try block returns the text: finally puts the sentinel
AgentReturns ==
    /\ run_status = "running" /\ agent_pc = "try"
    /\ sentence_queue' = FinallySentinel(sentence_queue)
    /\ sentinel_put' = TRUE
    /\ units' = [units EXCEPT !.ahead = Ahead(FinallySentinel(sentence_queue))]
    /\ agent_pc' = "returned"
    /\ UNCHANGED <<smVars, wwVars, mainVars, monVars, spVars, stVars,
                   next_unit, barge_in, late_chunk, last_turn, latchHist>>
    /\ UNCHANGED <<turnVars, capVars, svcVars>>

\* The try block raises: the except clause queues the error message (dropped
\* when the queue is full), finally puts the sentinel
AgentFails ==
    /\ run_status = "running" /\ agent_pc = "try"
    /\ LET q == FinallySentinel(IF Len(sentence_queue) < QueueMax
                                THEN Append(sentence_queue, ErrUnit)
                                ELSE sentence_queue)
       IN  /\ sentence_queue' = q
           /\ units' = [units EXCEPT !.ahead = Ahead(q)]
    /\ sentinel_put' = TRUE
    /\ agent_pc' = "returned"
    /\ UNCHANGED <<smVars, wwVars, mainVars, monVars, spVars, stVars,
                   next_unit, barge_in, late_chunk, last_turn, latchHist>>
    /\ UNCHANGED <<turnVars, capVars, svcVars>>

(***************************************************************************)
(* TextToSpeech.speak_streamed (andromeda/tts.py)                          *)
(***************************************************************************)
\* _next_sentence: queue.get() delivers an item; the sentinel ends the loop
TtsNextGet ==
    /\ run_status = "running" /\ tts_pc = "next"
    /\ sentence_queue # <<>>
    /\ sentence_queue' = Tail(sentence_queue)
    /\ IF Head(sentence_queue) = END
       THEN /\ tts_pc' = "done"
            /\ UNCHANGED cur_unit
       ELSE /\ tts_pc' = "synth"
            /\ cur_unit' = Head(sentence_queue)
    /\ UNCHANGED <<smVars, wwVars, mainVars, monVars, spVars, pre_pc, pre_res,
                   stream_opened, agent_pc, next_unit, histVars>>
    /\ UNCHANGED <<turnVars, capVars, svcVars>>

\* _next_sentence: the 0.2 s timeout ran out and the stop event is set
TtsNextStopped ==
    /\ run_status = "running" /\ tts_pc = "next"
    /\ stop_event
    /\ tts_pc' = "done"
    /\ UNCHANGED <<smVars, wwVars, mainVars, monVars, spVars, pre_pc, pre_res,
                   cur_unit, stream_opened, agVars, histVars>>
    /\ UNCHANGED <<turnVars, capVars, svcVars>>

\* Start playing cur_unit: create the prefetch task, open the stream on the
\* first unit (openOk; _open_playback_stream first calls on_first_audio,
\* feedback.stop), hand the clip to _write_chunks
TtsStartUnit(unit, openOk) ==
    /\ thinking' = IF stream_opened THEN thinking ELSE FALSE
    /\ IF stream_opened \/ openOk
       THEN /\ pre_pc' = "start"
            /\ stream_opened' = TRUE
            /\ wr_pc' = "check"
            /\ wr_left' = ChunksPerUnit
            /\ tts_pc' = "play"
            /\ units' = [units EXCEPT !.played = Append(@, unit)]
       ELSE /\ pre_pc' = "none"
            /\ tts_pc' = "done"
            /\ UNCHANGED <<stream_opened, wr_pc, wr_left, units>>

\* _synthesize_cached returned for the unit read from the queue
TtsSynthDone(openOk) ==
    /\ run_status = "running" /\ tts_pc = "synth"
    /\ TtsStartUnit(cur_unit, openOk)
    /\ UNCHANGED <<smVars, wwVars, mainVars, monVars, stop_event, sp_pc,
                   sp_failed, pre_res, cur_unit, agVars, barge_in, late_chunk,
                   sentinel_put, last_turn, latchHist>>
    /\ UNCHANGED <<listenVars, response_text, route_calls, capVars, svcVars>>

\* _write_chunks returned for the unit: the silence gap, unless stopped
TtsPlayed ==
    /\ run_status = "running" /\ tts_pc = "play" /\ wr_pc = "done"
    /\ IF cfg.silence /\ ~stop_event
       THEN /\ tts_pc' = "silence"
            /\ wr_pc' = "check"
            /\ wr_left' = 1
       ELSE /\ tts_pc' = "collect"
            /\ wr_pc' = "idle"
            /\ wr_left' = 0
    /\ UNCHANGED <<smVars, wwVars, mainVars, monVars, stop_event, sp_pc,
                   sp_failed, pre_pc, pre_res, cur_unit, stream_opened, agVars,
                   histVars>>
    /\ UNCHANGED <<turnVars, capVars, svcVars>>

TtsSilenceDone ==
    /\ run_status = "running" /\ tts_pc = "silence" /\ wr_pc = "done"
    /\ tts_pc' = "collect"
    /\ wr_pc' = "idle"
    /\ wr_left' = 0
    /\ UNCHANGED <<smVars, wwVars, mainVars, monVars, stop_event, sp_pc,
                   sp_failed, pre_pc, pre_res, cur_unit, stream_opened,
                   agVars, histVars>>
    /\ UNCHANGED <<turnVars, capVars, svcVars>>

\* Mutant of the top of the loop: the prefetched unit is not used, the
\* queue is read again
TtsCollected_reread ==
    /\ run_status = "running" /\ tts_pc = "collect" /\ pre_pc = "done"
    /\ tts_pc' = IF stop_event THEN "done" ELSE "next"
    /\ pre_pc' = "none"
    /\ UNCHANGED <<smVars, wwVars, mainVars, monVars, spVars, pre_res,
                   cur_unit, stream_opened, agVars, histVars>>
    /\ UNCHANGED <<turnVars, capVars, svcVars>>

\* _collect_prefetch returned; top of the loop: leave when stopped, play the
\* prefetched unit when there is one, else read the queue
TtsCollected ==
    /\ run_status = "running" /\ tts_pc = "collect" /\ pre_pc = "done"
    /\ pre_res' = 0
    /\ IF stop_event
       THEN /\ tts_pc' = "done"
            /\ pre_pc' = "none"
            /\ UNCHANGED <<cur_unit, stream_opened, wr_pc, wr_left, thinking,
                           units>>
       ELSE IF pre_res # 0
            THEN /\ cur_unit' = pre_res
                 /\ TtsStartUnit(pre_res, TRUE)
            ELSE /\ tts_pc' = "next"
                 /\ pre_pc' = "none"
                 /\ UNCHANGED <<cur_unit, stream_opened, wr_pc, wr_left,
                                thinking, units>>
    /\ UNCHANGED <<smVars, wwVars, mainVars, monVars, stop_event, sp_pc,
                   sp_failed, agVars, barge_in, late_chunk, sentinel_put,
                   last_turn, latchHist>>
    /\ UNCHANGED <<listenVars, response_text, route_calls, capVars, svcVars>>

\* Mutant of _prefetch_next: a sentinel it got is not put back
PrefetchRun_swallow ==
    /\ run_status = "running" /\ pre_pc = "start"
    /\ IF sentence_queue = <<>>
       THEN /\ pre_pc' = "done"
            /\ pre_res' = 0
            /\ UNCHANGED sentence_queue
       ELSE /\ pre_pc' = IF Head(sentence_queue) = END THEN "done" ELSE "synth"
            /\ pre_res' = Head(sentence_queue)
            /\ sentence_queue' = Tail(sentence_queue)
    /\ UNCHANGED <<smVars, wwVars, mainVars, monVars, spVars, tts_pc, cur_unit,
                   stream_opened, agent_pc, next_unit, histVars>>
    /\ UNCHANGED <<turnVars, capVars, svcVars>>

\* _prefetch_next: get_nowait; a sentinel is put back; a unit is synthesized
PrefetchRun ==
    /\ run_status = "running" /\ pre_pc = "start"
    /\ IF sentence_queue = <<>>
       THEN /\ pre_pc' = "done"
            /\ pre_res' = 0
            /\ UNCHANGED sentence_queue
       ELSE IF Head(sentence_queue) = END
            THEN /\ pre_pc' = "done"
                 /\ pre_res' = 0
                 /\ sentence_queue' = Append(Tail(sentence_queue), END)
            ELSE /\ pre_pc' = "synth"
                 /\ pre_res' = Head(sentence_queue)
                 /\ sentence_queue' = Tail(sentence_queue)
    /\ UNCHANGED <<smVars, wwVars, mainVars, monVars, spVars, tts_pc, cur_unit,
                   stream_opened, agent_pc, next_unit, histVars>>
    /\ UNCHANGED <<turnVars, capVars, svcVars>>

\* _prefetch_next: _synthesize_cached returned
PrefetchSynthDone ==
    /\ run_status = "running" /\ pre_pc = "synth"
    /\ pre_pc' = "done"
    /\ UNCHANGED <<smVars, wwVars, mainVars, monVars, spVars, tts_pc, pre_res,
                   cur_unit, stream_opened, agVars, histVars>>
    /\ UNCHANGED <<turnVars, capVars, svcVars>>

Init ==
    /\ state = "IDLE"
    /\ handlers = AssistantState
    /\ n_callbacks = 0
    /\ run_status = "running"
    /\ last_call = NoCall
    /\ last_handler = [for |-> "none", out |-> "none"]
    /\ OrchInit
    /\ on_audio_frame = <<"wake_word", "vad">>
    /\ chunk = DefaultChunk

Threads ==
    \/ \E w \in Waiters : WaitWake(w)
    \/ \E w \in Waiters : WaitIsSet(w)
    \/ \E w \in Waiters : WaitClear(w)
    \/ ProcessFrameDetect
    \/ \E ok \in BOOLEAN : WriteChunk(ok)

Handlers ==
    \/ IdleEnter \/ IdleResume
    \/ ListenEnter \/ (\E n \in 0..MaxRecorded, sp \in BOOLEAN : ListenEnd(n, sp)) \/ ListenRetryDone
    \/ ProcEnter \/ ProcTranscribeRaises \/ ProcEmptyTranscript \/ ProcRetryDone
    \/ ProcFastIntent \/ ProcFastDone
    \/ ProcStandardBegin \/ StdAgentReturned \/ StdAgentRaised \/ StdSpeakDone
    \/ ProcApologyDone
    \/ ProcStreamingBegin \/ ProcStreamingRaises
    \/ StreamAgentAwaited \/ StreamTtsAwaited
    \/ HandleSpeaking
    \/ ErrorEnter \/ ErrorDone

Tasks ==
    \/ (\E ok \in BOOLEAN : SpeakSynth(ok)) \/ SpeakPlayed
    \/ MonitorDetected \/ MonitorPollAgain
    \/ AgentEnterTry \/ AgentRaisesEarly \/ AgentPut \/ AgentDrop
    \/ AgentReturns \/ AgentFails
    \/ TtsNextGet \/ TtsNextStopped \/ (\E ok \in BOOLEAN : TtsSynthDone(ok))
    \/ TtsPlayed \/ TtsSilenceDone \/ TtsCollected
    \/ PrefetchRun \/ PrefetchSynthDone

Next ==
    \/ Threads
    \/ Handlers
    \/ Tasks

Spec == Init /\ [][Next]_vars

\* The event loop runs every task that can run and the worker threads make
\* progress; nothing obliges the user to speak or the agent to answer
Fairness ==
    /\ WF_vars(ErrorEnter)
    /\ WF_vars(ErrorDone)
    /\ WF_vars(\E ok \in BOOLEAN : SpeakSynth(ok))
    /\ WF_vars(SpeakPlayed)
    /\ WF_vars(\E ok \in BOOLEAN : WriteChunk(ok))

LiveSpec == Init /\ [][Next]_vars /\ Fairness

\* The event loop runs the playback and prefetch tasks whenever they can
\* run, and the worker thread of _write_chunks makes progress
StreamFairness ==
    /\ WF_vars(TtsNextGet)
    /\ WF_vars(TtsNextStopped)
    /\ WF_vars(\E ok \in BOOLEAN : TtsSynthDone(ok))
    /\ WF_vars(TtsPlayed)
    /\ WF_vars(TtsSilenceDone)
    /\ WF_vars(TtsCollected)
    /\ WF_vars(PrefetchRun)
    /\ WF_vars(PrefetchSynthDone)
    /\ WF_vars(\E ok \in BOOLEAN : WriteChunk(ok))

StreamLiveSpec == Init /\ [][Next]_vars /\ StreamFairness

(***************************************************************************)
(* The detector on its own: any caller may wait, reset or shut down        *)
(***************************************************************************)
\* A caller enters wait_for_detection in a worker thread
CallerWaits(finite) ==
    /\ FreeSlot # 0
    /\ waiters' = StartWait(waiters, FreeSlot, "caller", finite)
    /\ UNCHANGED <<smVars, detected, shutdown_flag, sd_pc, sd_calls, mainVars,
                   monVars, spVars, stVars, agVars, histVars>>
    /\ UNCHANGED <<turnVars, capVars, svcVars>>

\* The caller takes the result of a finished wait
CallerReturns(w) ==
    /\ waiters[w].owner = "caller" /\ waiters[w].pc = "done"
    /\ waiters' = [waiters EXCEPT ![w] = FreeWaiter]
    /\ UNCHANGED <<smVars, detected, shutdown_flag, sd_pc, sd_calls, mainVars,
                   monVars, spVars, stVars, agVars, histVars>>
    /\ UNCHANGED <<turnVars, capVars, svcVars>>

\* A caller calls reset()
CallerResets ==
    /\ detected
    /\ detected' = ResetLatch(detected)
    /\ stale_latch' = FALSE
    /\ UNCHANGED <<smVars, shutdown_flag, waiters, sd_pc, sd_calls, mainVars,
                   monVars, spVars, stVars, agVars, barge_in, late_chunk,
                   sentinel_put, units, last_turn, idle_dropped, idle_read_stale>>
    /\ UNCHANGED <<turnVars, capVars, svcVars>>

WWNext ==
    \/ \E f \in BOOLEAN : CallerWaits(f)
    \/ \E w \in Waiters : CallerReturns(w)
    \/ \E w \in Waiters : WaitWake(w)
    \/ \E w \in Waiters : WaitIsSet(w)
    \/ \E w \in Waiters : WaitClear(w)
    \/ CallerResets
    \/ ProcessFrameDetect
    \/ ShutdownFlag
    \/ ShutdownSet

WWSpec == Init /\ [][WWNext]_vars

(***************************************************************************)
(* AudioCapture (andromeda/audio_capture.py) and VoiceActivityDetector     *)
(* (andromeda/vad.py) on their own: the stream thread runs _audio_callback *)
(* frame by frame while any caller registers listeners, changes the route  *)
(* mode, starts and stops recording and drives the VAD                     *)
(***************************************************************************)
\* Everything of the orchestrator but the route mode
notRoute ==
    <<smVars, wwVars, pc, cfg, is_follow_up, tts_interrupted, monVars, spVars,
      stVars, agVars, histVars>>

respVars == <<recorded_audio, response_text, thinking, route_calls>>
vadVars == <<vad_active, speech_detected>>
lsnVars == <<on_audio_frame, on_stop_word_frame>>
cbVars ==
    <<cb_pc, cb_mode, cb_frame, cb_idx, next_frame, got, calls, raised_by,
      cb_stored>>
bufVars == <<ring_buffer, recording_buffer, appended>>
recVars == <<rec_pc, rec_result>>

\* The elements of a sequence
Range(q) == { q[i] : i \in 1..Len(q) }

\* Mutant of the ring buffer: a plain list, nothing is evicted
RingAppend_unbounded(ring, f) == Append(ring, f)

\* deque(maxlen=RingSize).append(f): the oldest frame is evicted when full
RingAppend(ring, f) ==
    IF Len(ring) < RingSize THEN Append(ring, f) ELSE Append(Tail(ring), f)

\* The listener list the dispatch part of _audio_callback iterates for `mode`
DispatchList(mode, general, stopword) ==
    IF mode = "STOP_ONLY" THEN stopword ELSE general

\* cb(frame_bytes): the body of the listener runs only when its signature
\* accepts the call; otherwise the call raises TypeError
BodyRuns(l) == Params[l] = CallbackArgs

\* Mutant of the dispatch loops: a listener exception leaves the callback
AfterListener_abort(out) == IF out = "ok" THEN "continue" ELSE "raise"

\* try: cb(frame_bytes) except Exception: logger.exception(...)
AfterListener(out) == "continue"

\* Mutant of stop_recording: the buffer is not cleared
StopRecordingBuffer_keep(buf) == buf

\* stop_recording: the recording buffer after the call
StopRecordingBuffer(buf) == <<>>

\* Mutant of stop_recording: the first frame is not returned
StopRecordingResult_tail(buf) == IF buf = <<>> THEN buf ELSE Tail(buf)

\* stop_recording: the frames of the returned waveform, in order (the bytes
\* are joined and every int16 sample is scaled by 1/32768)
StopRecordingResult(buf) == buf

\* on_audio_frame(callback), before the stream is started
OnAudioFrame(l) ==
    /\ next_frame = 1
    /\ Len(on_audio_frame) < MaxListeners
    /\ l \notin Range(on_audio_frame) \cup Range(on_stop_word_frame)
    /\ on_audio_frame' = Append(on_audio_frame, l)
    /\ UNCHANGED <<notRoute, svcVars, route_mode, turnVars, on_stop_word_frame, ac_lock,
                   cbVars, bufVars, recVars, unlocked>>

\* on_stop_word_frame(callback), before the stream is started
OnStopWordFrame(l) ==
    /\ next_frame = 1
    /\ Len(on_stop_word_frame) < MaxListeners
    /\ l \notin Range(on_audio_frame) \cup Range(on_stop_word_frame)
    /\ on_stop_word_frame' = Append(on_stop_word_frame, l)
    /\ UNCHANGED <<notRoute, svcVars, route_mode, turnVars, on_audio_frame, ac_lock,
                   cbVars, bufVars, recVars, unlocked>>

\* mute(), unmute(), set_route_mode_stop_only(): assign _route_mode; the lock
\* is not taken
SetRouteMode(m) ==
    /\ route_mode' = m
    /\ unlocked' = unlocked \cup {"route_mode"}
    /\ UNCHANGED <<notRoute, svcVars, turnVars, lsnVars, ac_lock, cbVars, bufVars, recVars>>

\* _audio_callback, first part: mode = self._route_mode (the lock is not
\* taken); a MUTED frame returns at once
CallbackBegin ==
    /\ cb_pc = "idle"
    /\ next_frame <= MaxFrames
    /\ cb_frame' = next_frame
    /\ next_frame' = next_frame + 1
    /\ cb_mode' = route_mode
    /\ unlocked' = unlocked \cup {"route_mode"}
    /\ got' = [l \in Listeners |-> 0]
    /\ calls' = [l \in Listeners |-> 0]
    /\ raised_by' = {}
    /\ cb_stored' = FALSE
    /\ cb_idx' = 1
    /\ cb_pc' = IF route_mode = "MUTED" THEN "idle" ELSE "lock"
    /\ UNCHANGED <<notRoute, svcVars, route_mode, turnVars, lsnVars, ac_lock, bufVars,
                   recVars>>

\* with self._lock: (the callback acquires the lock)
CallbackAcquire ==
    /\ cb_pc = "lock"
    /\ ac_lock = "none"
    /\ ac_lock' = "callback"
    /\ cb_pc' = "append"
    /\ UNCHANGED <<notRoute, svcVars, route_mode, turnVars, lsnVars, cb_mode, cb_frame,
                   cb_idx, next_frame, got, calls, raised_by, cb_stored,
                   bufVars, recVars, unlocked>>

\* Under the lock: append to the ring buffer, and to the recording buffer
\* when recording; release the lock
CallbackAppend ==
    /\ cb_pc = "append"
    /\ ring_buffer' = RingAppend(ring_buffer, cb_frame)
    /\ IF is_recording
       THEN /\ recording_buffer' = Append(recording_buffer, cb_frame)
            /\ appended' = Append(appended, cb_frame)
       ELSE UNCHANGED <<recording_buffer, appended>>
    /\ cb_stored' = TRUE
    /\ ac_lock' = "none"
    /\ cb_pc' = IF DispatchList(cb_mode, on_audio_frame, on_stop_word_frame) = <<>>
                THEN "idle" ELSE "dispatch"
    /\ UNCHANGED <<notRoute, svcVars, route_mode, turnVars, lsnVars, cb_mode, cb_frame,
                   cb_idx, next_frame, got, calls, raised_by, recVars, unlocked>>

\* One turn of the dispatch loop: cb(frame_bytes) for the next listener;
\* out: how the body of the listener ends when it runs
CallbackCall(out) ==
    /\ cb_pc = "dispatch"
    /\ LET list == DispatchList(cb_mode, on_audio_frame, on_stop_word_frame)
           l == list[cb_idx]
           res == IF BodyRuns(l) THEN out ELSE "exception"
       IN  /\ calls' = [calls EXCEPT ![l] = @ + 1]
           /\ got' = IF BodyRuns(l) THEN [got EXCEPT ![l] = @ + 1] ELSE got
           /\ raised_by' = IF res = "ok" THEN raised_by ELSE raised_by \cup {l}
           /\ cb_pc' = IF AfterListener(res) = "raise" THEN "raised"
                       ELSE IF cb_idx = Len(list) THEN "idle" ELSE "dispatch"
    /\ cb_idx' = cb_idx + 1
    /\ UNCHANGED <<notRoute, svcVars, route_mode, turnVars, lsnVars, ac_lock, cb_mode,
                   cb_frame, next_frame, cb_stored, bufVars, recVars, unlocked>>

\* start_recording / stop_recording: with self._lock (the caller acquires)
RecordingAcquire(op) ==
    /\ rec_pc = "none"
    /\ ac_lock = "none"
    /\ ac_lock' = "main"
    /\ rec_pc' = op
    /\ UNCHANGED <<notRoute, svcVars, route_mode, turnVars, lsnVars, cbVars, bufVars,
                   rec_result, unlocked>>

\* start_recording under the lock: clear the buffer, set the flag
StartRecording ==
    /\ rec_pc = "start"
    /\ recording_buffer' = <<>>
    /\ is_recording' = TRUE
    /\ appended' = <<>>
    /\ ac_lock' = "none"
    /\ rec_pc' = "none"
    /\ UNCHANGED <<notRoute, svcVars, route_mode, vadVars, respVars, lsnVars, cbVars,
                   ring_buffer, rec_result, unlocked>>

\* stop_recording under the lock: clear the flag, take the frames, clear the
\* buffer; then the conversion outside the lock
StopRecording ==
    /\ rec_pc = "stop"
    /\ is_recording' = FALSE
    /\ rec_result' = StopRecordingResult(recording_buffer)
    /\ recording_buffer' = StopRecordingBuffer(recording_buffer)
    /\ ac_lock' = "none"
    /\ rec_pc' = "stopped"
    /\ UNCHANGED <<notRoute, svcVars, route_mode, vadVars, respVars, lsnVars, cbVars,
                   ring_buffer, appended, unlocked>>

\* The caller has taken the waveform stop_recording returned
StopReturned ==
    /\ rec_pc = "stopped"
    /\ rec_pc' = "none"
    /\ rec_result' = <<>>
    /\ appended' = <<>>
    /\ UNCHANGED <<notRoute, svcVars, route_mode, turnVars, lsnVars, ac_lock, cbVars,
                   ring_buffer, recording_buffer, unlocked>>

\* AudioCapture.__init__ and VoiceActivityDetector.__init__: no listener yet
ACInit ==
    /\ state = "IDLE"
    /\ handlers = AssistantState
    /\ n_callbacks = 0
    /\ run_status = "running"
    /\ last_call = NoCall
    /\ last_handler = [for |-> "none", out |-> "none"]
    /\ OrchInit
    /\ cfg = [streaming |-> TRUE, follow_up |-> TRUE, silence |-> TRUE]
    /\ on_audio_frame = <<>>
    /\ chunk = DefaultChunk

ACNext ==
    \/ \E l \in Listeners : OnAudioFrame(l)
    \/ \E l \in Listeners : OnStopWordFrame(l)
    \/ \E m \in AudioRouteMode : SetRouteMode(m)
    \/ CallbackBegin
    \/ CallbackAcquire
    \/ CallbackAppend
    \/ \E out \in {"ok", "exception"} : CallbackCall(out)
    \/ \E op \in {"start", "stop"} : RecordingAcquire(op)
    \/ StartRecording
    \/ StopRecording
    \/ StopReturned

ACSpec == ACInit /\ [][ACNext]_vars

(***************************************************************************)
(* VoiceActivityDetector (andromeda/vad.py) in time: the clock advances in *)
(* ticks, the input stream captures a frame every `chunk` ticks, and any   *)
(* caller starts and stops the detector and sets its energy threshold      *)
(***************************************************************************)
notVad ==
    <<smVars, orchVars, response_text, thinking, route_calls, lsnVars, ac_lock,
      cbVars, appended, recVars, cacheVars, tool, extVars>>

\* What the LISTENING handler and the audio callback change besides the
\* detector
sessVars == <<is_recording, recording_buffer, ring_buffer, recorded_audio, sess>>

\* Mutant of the decay: the threshold is divided by the rate
DecayStep_grow(thr) == (thr * DecayDen) \div DecayNum

\* threshold * energy_decay_rate
DecayStep(thr) == (thr * DecayNum) \div DecayDen

\* threshold * energy_decay_rate ** steps
RECURSIVE Decayed(_, _)
Decayed(thr, steps) ==
    IF steps = 0 THEN thr ELSE Decayed(DecayStep(thr), steps - 1)

\* Mutant of process_frame: the flag follows the last frame
FrameSpeechDetected_last(sd, isSpeech) == isSpeech

\* if is_speech: self._speech_detected = True
FrameSpeechDetected(sd, isSpeech) == sd \/ isSpeech

\* Mutant of the silence condition: speech is not required
SilenceEnds_anytime(sd, silence) == silence > SilenceTimeoutTicks

\* self._speech_detected and silence_duration > silence_timeout_sec
SilenceEnds(sd, silence) == sd /\ silence > SilenceTimeoutTicks

\* A frame is captured at `now` and has not been handled yet
FrameDue == now % chunk = 0 /\ ~frame_done

\* set_energy_threshold(threshold), under the detector's lock
set_energy_threshold(thr) ==
    /\ energy_threshold' = thr
    /\ last_decay_time' = now
    /\ vad_op' = "set"
    /\ steady' = FALSE
    /\ UNCHANGED <<vadVars, start_time, last_speech_time, speech_ended,
                   armed_threshold, unlocked>>

\* start(), under the detector's lock
vad_start ==
    /\ vad_active' = TRUE
    /\ speech_detected' = FALSE
    /\ last_speech_time' = now
    /\ start_time' = now
    /\ last_decay_time' = now
    /\ speech_ended' = FALSE
    /\ vad_op' = "start"
    /\ armed_threshold' = energy_threshold
    /\ steady' = TRUE
    /\ UNCHANGED <<energy_threshold, unlocked>>

\* stop(), under the detector's lock
vad_stop ==
    /\ vad_active' = FALSE
    /\ speech_ended' = TRUE
    /\ vad_op' = "stop"
    /\ UNCHANGED <<speech_detected, vadTimes, energy_threshold,
                   armed_threshold, steady, unlocked>>

\* process_frame(frame_bytes, frame_array) for the frame captured at `now`.
\* An inactive detector and a classifier that raises return at once.  A
\* speech frame is compared with _energy_threshold before the lock is taken;
\* under the lock the threshold decays, the speech flag and time are set, and
\* the two end conditions set the latch and deactivate the detector.
process_frame(cls, rms) ==
    /\ vad_op' = "frame"
    /\ UNCHANGED <<start_time, armed_threshold>>
    /\ IF ~vad_active \/ cls = "error"
       THEN /\ steady' = (steady /\ ~vad_active)
            /\ UNCHANGED <<vadVars, last_speech_time, last_decay_time,
                           energy_threshold, speech_ended, unlocked>>
       ELSE LET gated == /\ cls = "speech"
                         /\ energy_threshold > 0
                         /\ rms < energy_threshold
                is_speech == cls = "speech" /\ ~gated
                since_decay == now - last_decay_time
                decays == energy_threshold > 0 /\ since_decay >= Second
                sd == FrameSpeechDetected(speech_detected, is_speech)
                lst == IF is_speech THEN now ELSE last_speech_time
                ends == \/ now - start_time > MaxRecordingTicks
                        \/ SilenceEnds(sd, now - lst)
            IN  /\ unlocked' = IF cls = "speech"
                               THEN unlocked \cup {"energy_threshold"}
                               ELSE unlocked
                /\ energy_threshold' =
                       IF decays
                       THEN Decayed(energy_threshold, since_decay \div Second)
                       ELSE energy_threshold
                /\ last_decay_time' = IF decays THEN now ELSE last_decay_time
                /\ speech_detected' = sd
                /\ last_speech_time' = lst
                /\ speech_ended' = (speech_ended \/ ends)
                /\ vad_active' = ~ends
                /\ UNCHANGED steady

\* One tick of time.monotonic(); a frame the armed detector did not get
\* ends the steady run
VadTick ==
    /\ now < MaxTime
    /\ now' = now + 1
    /\ frame_done' = FALSE
    /\ steady' = (steady /\ ~(vad_active /\ FrameDue))
    /\ UNCHANGED <<notVad, sessVars, vadVars, unlocked, chunk, vadTimes,
                   energy_threshold, speech_ended, vad_op, armed_threshold>>

\* Any caller sets the threshold, starts and stops the detector
VadSetEnergyThreshold(thr) ==
    /\ set_energy_threshold(thr)
    /\ UNCHANGED <<notVad, sessVars, vadClock>>

VadStart ==
    /\ ~vad_active
    /\ vad_start
    /\ UNCHANGED <<notVad, sessVars, vadClock>>

VadStop ==
    /\ vad_stop
    /\ UNCHANGED <<notVad, sessVars, vadClock>>

\* The frame captured at `now` is handed to process_frame
VadProcessFrame(cls, rms) ==
    /\ FrameDue
    /\ frame_done' = TRUE
    /\ process_frame(cls, rms)
    /\ UNCHANGED <<notVad, sessVars, now, chunk>>

\* process_frame(frame_bytes, frame_array), with the frame it got kept for
\* the claim about the energy gate
GateFrame(cls, rms) ==
    /\ FrameDue
    /\ frame_done' = TRUE
    /\ process_frame(cls, rms)
    /\ gate' = [cls |-> cls, rms |-> IF cls = "speech" THEN rms ELSE 0]
    /\ UNCHANGED <<smVars, orchVars, response_text, thinking, route_calls,
                   lsnVars, ac_lock, cbVars, appended, recVars, cacheVars,
                   tool, intent, http, stopw>>
    /\ UNCHANGED <<sessVars, now, chunk>>

\* VoiceActivityDetector.__init__, with either chunk period
VadInit ==
    /\ state = "IDLE"
    /\ handlers = AssistantState
    /\ n_callbacks = 0
    /\ run_status = "running"
    /\ last_call = NoCall
    /\ last_handler = [for |-> "none", out |-> "none"]
    /\ OrchInit
    /\ cfg = [streaming |-> TRUE, follow_up |-> TRUE, silence |-> TRUE]
    /\ on_audio_frame = <<"wake_word", "vad">>
    /\ chunk \in ChunkPeriods

VadNext ==
    \/ VadTick
    \/ \E thr \in Thresholds : VadSetEnergyThreshold(thr)
    \/ VadStart
    \/ VadStop
    \/ \E cls \in Classified, rms \in FrameRms : VadProcessFrame(cls, rms)

VadSpec == VadInit /\ [][VadNext]_vars

GateNext ==
    \/ VadTick
    \/ \E thr \in Thresholds : VadSetEnergyThreshold(thr)
    \/ VadStart
    \/ \E cls \in Classified, rms \in FrameRms : GateFrame(cls, rms)

GateSpec == VadInit /\ [][GateNext]_vars

(***************************************************************************)
(* One LISTENING session in time: _handle_idle sets the threshold,         *)
(* _handle_listening starts the recording and the detector, the stream     *)
(* thread runs _audio_callback for every frame, and the handler stops both *)
(* when wait_for_speech_end(timeout=max_recording_sec + 1) returns         *)
(***************************************************************************)
\* _handle_idle after a detection: set_energy_threshold(energy_threshold)
SessWake(thr) ==
    /\ sess.pc = "idle"
    /\ set_energy_threshold(thr)
    /\ sess' = [NoSession EXCEPT !.pc = "woken"]
    /\ UNCHANGED <<notVad, is_recording, recording_buffer, ring_buffer,
                   recorded_audio, vadClock>>

\* _handle_listening: start_recording(), then vad.start()
SessListenStart ==
    /\ sess.pc = "woken"
    /\ is_recording' = TRUE
    /\ recording_buffer' = <<>>
    /\ vad_start
    /\ sess' = [sess EXCEPT !.pc = "listening", !.last = now]
    /\ UNCHANGED <<notVad, ring_buffer, recorded_audio, vadClock>>

\* _audio_callback for the frame captured at `now`: the frame is stored, then
\* every listener of the route mode is called with one argument
SessFrame(cls, rms) ==
    /\ FrameDue
    /\ route_mode # "MUTED"
    /\ frame_done' = TRUE
    /\ ring_buffer' = RingAppend(ring_buffer, now)
    /\ recording_buffer' = IF is_recording THEN Append(recording_buffer, now)
                           ELSE recording_buffer
    /\ LET list == DispatchList(route_mode, on_audio_frame, on_stop_word_frame)
       IN  IF "vad" \in Range(list) /\ BodyRuns("vad")
           THEN process_frame(cls, rms)
           ELSE UNCHANGED <<vadVars, vadTimes, energy_threshold, speech_ended,
                            vad_op, armed_threshold, steady, unlocked>>
    /\ LET speech == cls = "speech" /\ ~(rms < energy_threshold)
       IN  sess' =
             IF ~is_recording THEN sess
             ELSE [sess EXCEPT
                     !.speech = IF speech THEN @ + 1 ELSE @,
                     !.last = IF speech THEN now ELSE @,
                     !.quiet = IF speech THEN 0 ELSE now - sess.last,
                     !.clean = /\ @
                               /\ cls # "error"
                               /\ cls = "speech" => speech /\ sess.quiet = 0]
    /\ UNCHANGED <<notVad, is_recording, recorded_audio, now, chunk>>

\* wait_for_speech_end returns (latch or timeout): vad.stop() and
\* stop_recording()
SessListenStop ==
    /\ sess.pc = "listening"
    /\ speech_ended \/ now - start_time >= MaxRecordingTicks + Second
    /\ vad_stop
    /\ is_recording' = FALSE
    /\ recorded_audio' = Len(StopRecordingResult(recording_buffer))
    /\ recording_buffer' = StopRecordingBuffer(recording_buffer)
    /\ sess' = [sess EXCEPT !.pc = "stopped",
                            !.how = IF speech_ended THEN "latch" ELSE "timeout",
                            !.clean = @ /\ steady]
    /\ UNCHANGED <<notVad, ring_buffer, vadClock>>

\* set_energy_threshold(0.0) and the minimum-recording test
SessListenCheck ==
    /\ sess.pc = "stopped"
    /\ set_energy_threshold(0)
    /\ sess' = [sess EXCEPT
                  !.pc = "idle",
                  !.out = IF RecordingUsable(recorded_audio, speech_detected)
                          THEN "PROCESSING" ELSE "IDLE"]
    /\ UNCHANGED <<notVad, is_recording, recording_buffer, ring_buffer,
                   recorded_audio, vadClock>>

SessNext ==
    \/ VadTick
    \/ \E thr \in Thresholds : SessWake(thr)
    \/ SessListenStart
    \/ \E cls \in Classified, rms \in FrameRms : SessFrame(cls, rms)
    \/ SessListenStop
    \/ SessListenCheck

SessSpec == VadInit /\ [][SessNext]_vars

(***************************************************************************)
(* The audio cache of TextToSpeech (andromeda/tts.py): lookups through     *)
(* _synthesize_cached, pre-warming, and the fade-out the callers apply in  *)
(* place to the audio they got                                             *)
(***************************************************************************)
notCache == <<smVars, orchVars, turnVars, capVars, vadxVars, tool, extVars>>

Cached(cache, k) == cache[k] # NoAudio

\* A sequence without the element k
RECURSIVE Without(_, _)
Without(q, k) ==
    IF q = <<>> THEN <<>>
    ELSE IF Head(q) = k THEN Without(Tail(q), k)
    ELSE <<Head(q)>> \o Without(Tail(q), k)

\* Mutant of _cache_put: the array itself is stored
PutCopies_alias == FALSE

\* self._cache[key] = (audio.copy(), sample_rate)
PutCopies == TRUE

\* _cache_put(key, audio, sample_rate): nothing for a cached key; a full
\* cache first drops the key at the left of _cache_order
CachePut(cache, order, key, audio) ==
    IF Cached(cache, key)
    THEN [cache |-> cache, order |-> order, evicted |-> NoText, put |-> FALSE]
    ELSE IF Cardinality({k \in CacheKeys : Cached(cache, k)}) >= TtsCacheMax
    THEN [cache |-> [cache EXCEPT ![Head(order)] = NoAudio, ![key] = audio],
          order |-> Append(Tail(order), key),
          evicted |-> Head(order), put |-> TRUE]
    ELSE [cache |-> [cache EXCEPT ![key] = audio],
          order |-> Append(order, key), evicted |-> NoText, put |-> TRUE]

\* _synthesize_cached(loop, text): a hit returns a copy of the cached
\* audio; a miss synthesizes (take: what the engine produced), stores and
\* returns the new audio
SynthesizeCached(text, take) ==
    LET key == CacheKey(text)
        audio == [text |-> text, take |-> take, faded |-> FALSE]
        r == CachePut(tts_cache, cache_order, key, audio)
    IN  /\ IF Cached(tts_cache, key)
           THEN /\ tts_ret' = [op |-> "lookup", text |-> text,
                               audio |-> tts_cache[key], hit |-> TRUE,
                               synth |-> FALSE, shared |-> FALSE,
                               evicted |-> NoText]
                /\ use_order' = Append(Without(use_order, key), key)
                /\ UNCHANGED <<tts_cache, cache_order>>
           ELSE /\ tts_ret' = [op |-> "lookup", text |-> text, audio |-> audio,
                               hit |-> FALSE, synth |-> TRUE,
                               shared |-> ~PutCopies, evicted |-> r.evicted]
                /\ tts_cache' = r.cache
                /\ cache_order' = r.order
                /\ use_order' = Append(Without(use_order, r.evicted), key)
        /\ UNCHANGED notCache

\* prewarm_cache, one phrase: synthesized and stored unless already cached
\* (ok: _synthesize did not raise)
PrewarmCache(text, take, ok) ==
    LET key == CacheKey(text)
        audio == [text |-> text, take |-> take, faded |-> FALSE]
        r == CachePut(tts_cache, cache_order, key, audio)
    IN  /\ ~Cached(tts_cache, key)
        /\ IF ok
           THEN /\ tts_cache' = r.cache
                /\ cache_order' = r.order
                /\ use_order' = Append(Without(use_order, r.evicted), key)
                /\ tts_ret' = [NoLookup EXCEPT !.op = "prewarm", !.text = text,
                                              !.synth = TRUE,
                                              !.evicted = r.evicted]
           ELSE /\ tts_ret' = [NoLookup EXCEPT !.op = "prewarm", !.text = text,
                                              !.synth = TRUE]
                /\ UNCHANGED <<tts_cache, cache_order, use_order>>
        /\ UNCHANGED notCache

\* _apply_fade_out(audio) on the audio the last lookup returned: the array
\* is changed in place
ApplyFadeOut ==
    /\ tts_ret.op = "lookup"
    /\ ~tts_ret.audio.faded
    /\ tts_ret' = [tts_ret EXCEPT !.op = "fade", !.audio.faded = TRUE]
    /\ tts_cache' =
          IF tts_ret.shared /\ Cached(tts_cache, CacheKey(tts_ret.text))
          THEN [tts_cache EXCEPT ![CacheKey(tts_ret.text)].faded = TRUE]
          ELSE tts_cache
    /\ UNCHANGED <<cache_order, use_order, notCache>>

CacheNext ==
    \/ \E t \in Texts, k \in Takes : SynthesizeCached(t, k)
    \/ \E t \in Texts, k \in Takes, ok \in BOOLEAN : PrewarmCache(t, k, ok)
    \/ ApplyFadeOut

CacheSpec == Init /\ [][CacheNext]_vars


(***************************************************************************)
(* The tool loop of AIAgent (andromeda/agent.py): _complete_with_tools for *)
(* process and _complete_with_tools_streaming for process_streaming, with  *)
(* the except clauses of their callers                                     *)
(***************************************************************************)
notTools ==
    <<smVars, orchVars, turnVars, capVars, vadxVars, cacheVars, extVars>>

\* process(user_text) / process_streaming(user_text, queue) reach the loop
ToolBegin(streaming) ==
    /\ tool.pc = "none"
    /\ tool' = [NoToolLoop EXCEPT !.pc = "request", !.streaming = streaming]
    /\ UNCHANGED notTools

\* One `message = await self._chat_request(messages)` of the loop; n: the
\* tool calls a message with tool calls carries.  A text reply ends the
\* loop: process returns it, process_streaming enqueues it unless tools
\* were used; an exception is turned into a message by the caller.
ChatRequest(reply, n) ==
    /\ tool.pc = "request"
    /\ LET t == [tool EXCEPT !.rounds = @ + 1, !.requests = @ + 1,
                             !.last = reply]
       IN  tool' =
             CASE reply = "tools" ->
                    [t EXCEPT !.pc = "tools", !.pending = n,
                              !.used_tools = TRUE, !.msgs = @ + 1]
               [] reply = "text" ->
                    IF tool.streaming /\ tool.used_tools
                    THEN [t EXCEPT !.pc = "stream"]
                    ELSE [t EXCEPT !.pc = "done", !.result = "text"]
               [] OTHER ->
                    [t EXCEPT !.pc = "done", !.result = ErrorMessage(reply)]
    /\ UNCHANGED notTools

\* result = await self._execute_tool_call(tool_call): the result (or the
\* error string of a failing handler) is appended; after the last call of
\* the message the loop goes on, or is exhausted: _complete_with_tools
\* returns REQUEST_TOO_COMPLEX, _complete_with_tools_streaming falls through
\* to _stream_response
ExecuteToolCall ==
    /\ tool.pc = "tools"
    /\ LET t == [tool EXCEPT !.pending = @ - 1, !.msgs = @ + 1]
       IN  tool' =
             IF t.pending > 0 THEN t
             ELSE IF tool.rounds < ToolRounds THEN [t EXCEPT !.pc = "request"]
             ELSE IF tool.streaming THEN [t EXCEPT !.pc = "stream"]
             ELSE [t EXCEPT !.pc = "done", !.result = "REQUEST_TOO_COMPLEX"]
    /\ UNCHANGED notTools

\* return await self._stream_response(messages, sentence_queue): one more
\* model request, whose text is streamed to the queue and returned
StreamResponse(reply) ==
    /\ tool.pc = "stream"
    /\ tool' = [tool EXCEPT !.pc = "done", !.requests = @ + 1,
                            !.result = IF reply = "text" THEN "streamed"
                                       ELSE ErrorMessage(reply)]
    /\ UNCHANGED notTools

\* The caller has the response; the next turn can begin
ToolReturn ==
    /\ tool.pc = "done"
    /\ tool' = NoToolLoop
    /\ UNCHANGED notTools

ToolNext ==
    \/ \E b \in BOOLEAN : ToolBegin(b)
    \/ \E reply \in ChatReplies, n \in 1..MaxToolCalls : ChatRequest(reply, n)
    \/ ExecuteToolCall
    \/ \E reply \in ChatReplies \ {"tools"} : StreamResponse(reply)
    \/ ToolReturn

ToolSpec == Init /\ [][ToolNext]_vars


(***************************************************************************)
(* The fast-intent registry (andromeda/intent.py): any caller registers    *)
(* intents, clears the registry and matches a transcript                   *)
(***************************************************************************)
notIntent ==
    <<smVars, orchVars, turnVars, capVars, vadxVars, cacheVars, tool, http,
      stopw, gate>>

\* The inner loop of match_and_execute: the index of the first pattern of
\* the list that pattern.search finds in the lowered text, 0 if none does
RECURSIVE FirstPattern(_, _, _)
FirstPattern(patterns, text_lower, j) ==
    IF j > Len(patterns) THEN 0
    ELSE IF patterns[j] = text_lower.word THEN j
    ELSE FirstPattern(patterns, text_lower, j + 1)

\* The outer loop: the index of the first intent one of whose patterns is
\* found, 0 if the loop runs to its end
RECURSIVE FirstIntent(_, _, _)
FirstIntent(intents, text_lower, i) ==
    IF i > Len(intents) THEN 0
    ELSE IF FirstPattern(intents[i].patterns, text_lower, 1) # 0 THEN i
    ELSE FirstIntent(intents, text_lower, i + 1)

\* Mutant of _run_handler: the exception of the handler is not caught
run_handler_propagate(handler, args) ==
    IF handler.raises THEN [kind |-> "raise", by |-> "none", args |-> "none"]
    ELSE [kind |-> "value", by |-> handler.name, args |-> args]

\* _run_handler: str(handler(args)), awaited if the handler is a coroutine
\* function; `except Exception` returns GENERIC_ERROR_RETRY
run_handler(handler, args) ==
    IF handler.raises THEN [kind |-> "error", by |-> "none", args |-> "none"]
    ELSE [kind |-> "value", by |-> handler.name, args |-> args]

\* register_intent(patterns, tool_handler, args)
RegisterIntent(patterns, handler, args) ==
    /\ Len(intent.intents) < MaxIntents
    /\ intent' =
         [NoIntents EXCEPT
            !.op = "register",
            !.intents =
                Append(intent.intents,
                       [patterns |-> patterns, handler |-> handler,
                        args |-> args])]
    /\ UNCHANGED notIntent

\* clear_intents()
ClearIntents ==
    /\ intent.intents # <<>>
    /\ intent' = [NoIntents EXCEPT !.op = "clear"]
    /\ UNCHANGED notIntent

\* match_and_execute(text): text.lower().strip(), a copy of the registry
\* taken under the lock, then the two loops; the first pattern found ends
\* the call with what _run_handler returns
MatchAndExecute(text) ==
    LET text_lower == [text EXCEPT !.upper = FALSE, !.padded = FALSE]
        intents == intent.intents
        i == FirstIntent(intents, text_lower, 1)
    IN  /\ intent' =
             [intent EXCEPT
                !.op = "match", !.text = text, !.seen = intents, !.hit = i,
                !.pattern =
                    IF i = 0 THEN 0
                    ELSE FirstPattern(intents[i].patterns, text_lower, 1),
                !.called =
                    IF i = 0 THEN <<>> ELSE <<intents[i].handler.name>>,
                !.result =
                    IF i = 0 THEN NoResult
                    ELSE run_handler(intents[i].handler, intents[i].args)]
        /\ UNCHANGED notIntent

IntentNext ==
    \/ \E p \in PatternLists, h \in IntentHandlers, a \in IntentArgs :
            RegisterIntent(p, h, a)
    \/ ClearIntents
    \/ \E t \in Texts : MatchAndExecute(t)

IntentSpec == Init /\ [][IntentNext]_vars

(***************************************************************************)
(* The resilient HTTP client (andromeda/tools/http_client.py) for one      *)
(* host: the tools call request_with_retry one call after the other while  *)
(* the clock advances                                                      *)
(***************************************************************************)
notHttp ==
    <<smVars, orchVars, turnVars, capVars, vadxVars, cacheVars, tool, intent,
      stopw, gate>>

\* _is_circuit_open(key)
IsCircuitOpen(h) == h.open_until > h.time

\* _mark_success(key)
MarkSuccess(h) == [h EXCEPT !.fails = 0, !.open_until = 0]

\* _mark_failure(key)
MarkFailure(h) ==
    LET fails == h.fails + 1
    IN  [h EXCEPT
           !.fails = fails,
           !.open_until =
               IF fails >= CircuitFailThreshold
               THEN h.time + CircuitOpenTicks ELSE @,
           !.tripped_at = IF fails >= CircuitFailThreshold THEN h.time ELSE @]

\* time.monotonic() advances, also during an attempt and the backoff sleep
HttpTick ==
    /\ http.time < HttpMaxTime
    /\ http' = [http EXCEPT !.time = @ + 1, !.step = "tick"]
    /\ UNCHANGED notHttp

\* request_with_retry(method, url, retries=r) up to its first attempt:
\* RuntimeError("Circuit open") when the circuit is open
HttpCall(r) ==
    /\ http.pc = "idle"
    /\ http' =
         IF IsCircuitOpen(http)
         THEN [http EXCEPT !.step = "circuit_open"]
         ELSE [http EXCEPT
                 !.step = "call", !.pc = "attempt", !.attempt = 0,
                 !.retries = r]
    /\ UNCHANGED notHttp

\* One turn of the loop of request_with_retry: _attempt_request, then
\* _mark_success and return, or _mark_failure and retry after the backoff,
\* or raise
HttpAttempt(outcome) ==
    /\ http.pc = "attempt"
    /\ outcome = "retryable" => http.fails < MaxFails
    /\ http' =
         CASE outcome = "ok" ->
                [MarkSuccess(http) EXCEPT !.step = "response", !.pc = "idle"]
           [] outcome = "fatal" ->
                [http EXCEPT !.step = "error", !.pc = "idle"]
           [] outcome = "retryable" ->
                IF http.attempt < http.retries
                THEN [MarkFailure(http) EXCEPT
                        !.step = "failed", !.attempt = @ + 1]
                ELSE [MarkFailure(http) EXCEPT
                        !.step = "error", !.pc = "idle"]
    /\ UNCHANGED notHttp

HttpNext ==
    \/ HttpTick
    \/ \E r \in Retries : HttpCall(r)
    \/ \E o \in AttemptOutcomes : HttpAttempt(o)

HttpSpec == Init /\ [][HttpNext]_vars

(***************************************************************************)
(* StopWordListener (andromeda/stop_word.py): any caller initializes,      *)
(* starts, stops and waits while the audio thread hands frames over        *)
(***************************************************************************)
notStopWord ==
    <<smVars, orchVars, turnVars, capVars, vadxVars, cacheVars, tool, intent,
      http, gate>>

\* initialize(): the model is loaded, or loading failed and _model is None
StopWordInitialize(ok) ==
    /\ stopw.op = "none"
    /\ stopw' = [stopw EXCEPT !.model = ok, !.op = "initialize"]
    /\ UNCHANGED notStopWord

\* start(energy_threshold)
StopWordStart(thr) ==
    /\ stopw' =
         [stopw EXCEPT
            !.energy_threshold = thr, !.detected = FALSE, !.is_active = TRUE,
            !.qualified = FALSE, !.op = "start", !.ret = "none"]
    /\ UNCHANGED notStopWord

\* stop()
StopWordStop ==
    /\ stopw' =
         [stopw EXCEPT
            !.is_active = FALSE, !.detected = TRUE, !.op = "stop",
            !.ret = "none"]
    /\ UNCHANGED notStopWord

\* process_frame(frame_bytes): a frame of RMS `rms` for which the model's
\* score exceeds the detection threshold or not
StopWordProcessFrame(rms, scoreAbove) ==
    /\ stopw' =
         IF ~stopw.is_active \/ ~stopw.model
         THEN [stopw EXCEPT !.op = "frame", !.ret = "none"]
         ELSE IF stopw.energy_threshold > 0 /\ rms < stopw.energy_threshold
         THEN [stopw EXCEPT !.op = "frame", !.ret = "none"]
         ELSE [stopw EXCEPT
                 !.op = "frame", !.ret = "none",
                 !.detected = @ \/ scoreAbove,
                 !.qualified = @ \/ scoreAbove]
    /\ UNCHANGED notStopWord

\* wait_for_detection(timeout) is called, with a finite timeout or None
StopWordWait(timeout) ==
    /\ stopw.wait = "none"
    /\ stopw' = [stopw EXCEPT !.wait = timeout, !.op = "wait", !.ret = "none"]
    /\ UNCHANGED notStopWord

\* self._detected.wait(timeout) returns: true once the latch is set, false
\* when a finite timeout ran out first
StopWordWaitReturns ==
    /\ stopw.wait # "none"
    /\ stopw.detected \/ stopw.wait = "finite"
    /\ stopw' =
         [stopw EXCEPT
            !.wait = "none", !.op = "return",
            !.ret = IF stopw.detected THEN "true" ELSE "false"]
    /\ UNCHANGED notStopWord

StopWordNext ==
    \/ \E ok \in BOOLEAN : StopWordInitialize(ok)
    \/ \E thr \in Thresholds : StopWordStart(thr)
    \/ StopWordStop
    \/ \E rms \in FrameRms, sc \in BOOLEAN : StopWordProcessFrame(rms, sc)
    \/ \E timeout \in {"finite", "forever"} : StopWordWait(timeout)
    \/ StopWordWaitReturns

StopWordSpec == Init /\ [][StopWordNext]_vars

(***************************************************************************)
(* Claims about the state machine (checked under SMSpec)                   *)
(***************************************************************************)
\* C1: transition_to(T) in state S changes the state, to T, iff T is in
\* TRANSITIONS[S]; otherwise the state is unchanged and no registered
\* transition callback is invoked.
C1_TransitionIffLegal ==
    last_call # NoCall =>
        IF last_call.req \in AssistantState
           /\ last_call.req \in TRANSITIONS[last_call.from]
        THEN state = last_call.req /\ state # last_call.from
        ELSE state = last_call.from /\ last_call.fired = 0

\* C1 witness: a rejected request with callbacks registered, and the state
\* it left alone is not the initial one
C1_Witness ==
    /\ last_call # NoCall
    /\ last_call.req \in AssistantState
    /\ last_call.req \notin TRANSITIONS[last_call.from]
    /\ last_call.from = "PROCESSING"
    /\ n_callbacks > 0
    /\ state = "PROCESSING"

\* C2 (as claimed): after the handler of any state raised, the current
\* state is ERROR when the next handler is about to be invoked.
C2_FaultEntersError ==
    (run_status = "running" /\ last_handler.out = "raise") => state = "ERROR"

\* C3: run() is never left because of a handler fault: a handler that
\* raises, a handler that returns an arbitrary value and a transition
\* callback that raises all leave the loop running; only cancellation ends it.
C3_OnlyCancellationEndsRun ==
    run_status \in {"running", "cancelled"}

\* C3 witness: a handler raised while a raising callback is registered, the
\* callback raised inside the ERROR transition, and the loop still runs
C3_Witness ==
    /\ run_status = "running"
    /\ last_handler.out = "raise"
    /\ last_handler.for = "SPEAKING"
    /\ last_call.req = "ERROR"
    /\ last_call.cb_raised

\* C32: an iteration of run() that finds no handler for the current state
\* S leaves the machine in IDLE, whatever S is, invokes no handler, and
\* leaves the loop running.
C32_MissingHandlerGoesIdle ==
    [][(last_handler'.out = "missing"
        /\ <<state, last_call, last_handler>>' # <<state, last_call, last_handler>>)
       => /\ state \notin handlers
          /\ last_handler'.for = state
          /\ state' = "IDLE"
          /\ run_status' = "running"]_vars

\* C32 witness: SPEAKING had no handler and a raising callback was
\* registered; the iteration went through transition_to(IDLE)
C32_Witness ==
    /\ last_handler = [for |-> "SPEAKING", out |-> "missing"]
    /\ last_call.from = "SPEAKING" /\ last_call.req = "IDLE"
    /\ last_call.cb_raised
    /\ state = "IDLE"
    /\ run_status = "running"

(***************************************************************************)
(* Claims about the orchestrator (checked under Spec and LiveSpec)         *)
(***************************************************************************)
\* C4: whenever the machine is in ERROR with the orchestrator's handlers
\* registered, the next state it takes is IDLE and no other, and it does
\* eventually move to IDLE, also when speaking the recovery message fails.
C4_ErrorResolvesToIdle ==
    /\ [][state = "ERROR" => state' \in {"ERROR", "IDLE"}]_vars
    /\ (state = "ERROR") ~> (state = "IDLE")

\* C4 witness: the ERROR handler returned after speak() failed, and the
\* machine is in IDLE
C4_Witness ==
    /\ state = "IDLE"
    /\ pc = "top"
    /\ last_handler.for = "ERROR"
    /\ last_handler.out = "IDLE"
    /\ sp_failed

\* C5: if the interrupt monitor observed a detection during the turn, then
\* when the PROCESSING handler has returned the interrupted flag is true,
\* the handler returned IDLE and the machine went PROCESSING -> IDLE.
C5_BargeInReturnsIdle ==
    (pc = "top" /\ last_handler.for = "PROCESSING" /\ last_turn.barged) =>
        /\ tts_interrupted
        /\ last_handler.out = "IDLE"
        /\ state = "IDLE"

\* C5 witness: a streaming turn with a barge-in has just returned to IDLE
C5_Witness ==
    /\ pc = "top"
    /\ last_handler.for = "PROCESSING"
    /\ last_turn.barged
    /\ cfg.streaming
    /\ state = "IDLE"

C7_NoWorkSurvivesTurn ==
    (pc = "top" /\ last_handler.for = "PROCESSING") =>
        /\ last_turn.tasks_done
        /\ last_turn.waits_done

\* C8 (as claimed): once the streaming agent task has ended and
\* _process_streaming waits for the playback task, an end-of-stream sentinel
\* has been put on the sentence queue.
C8_SentinelAfterAgentEnds ==
    pc = "stream_tts" => sentinel_put

\* C10: the latch never holds a detection from before the last entry of the
\* IDLE handler, and IDLE -> LISTENING is never taken on such a detection.
C10_NoStaleDetectionStartsSession ==
    /\ ~stale_latch
    /\ (state = "LISTENING" /\ last_handler.for = "IDLE") => ~idle_read_stale

\* C10 witness: a detection was latched when the IDLE handler was entered,
\* the handler dropped it, and a later detection started the session
C10_Witness ==
    /\ state = "LISTENING"
    /\ pc = "top"
    /\ last_handler.for = "IDLE"
    /\ idle_dropped

(***************************************************************************)
(* Claim about the detector (checked under WWSpec)                         *)
(***************************************************************************)
\* C9 (as claimed): once shutdown() has returned, the latch is set in every
\* later state and every wait_for_detection call made after it returned
\* false.
C9_ShutdownIsTerminal ==
    (sd_calls > 1 \/ sd_pc = "done") =>
        /\ detected
        /\ \A w \in Waiters :
              (waiters[w].after_sd /\ waiters[w].pc = "done") => ~waiters[w].det

(***************************************************************************)
(* Claims about the waits the handlers issue (checked under Spec)          *)
(***************************************************************************)
\* C11 (as claimed): every wait_for_detection call the orchestrator has in
\* progress, from the IDLE handler or from the interrupt monitor, was made
\* with a finite timeout.
C11_EveryWaitIsFinite ==
    \A w \in Waiters :
        (waiters[w].pc # "free" /\ waiters[w].owner \in {"idle", "monitor"})
            => waiters[w].finite

(***************************************************************************)
(* Claims about the LISTENING and PROCESSING handlers (checked under Spec) *)
(***************************************************************************)
\* C18: when the wait of the LISTENING handler is over, VAD and recording
\* are stopped; the handler returns PROCESSING exactly when the recording
\* has at least MinSamples and the VAD saw speech; otherwise the follow-up
\* variant returns IDLE at once without speaking, and the wake-word variant
\* speaks the retry prompt and then returns IDLE, VAD and recording still
\* stopped.
C18_ListeningOutcome ==
    /\ [][(pc = "listen_wait" /\ pc' # "listen_wait") =>
            /\ ~vad_active' /\ ~is_recording'
            /\ IF recorded_audio' >= MinSamples /\ speech_detected'
               THEN /\ pc' = "top"
                    /\ last_handler' = [for |-> "LISTENING", out |-> "PROCESSING"]
                    /\ state' = "PROCESSING"
                    /\ sp_pc' = "none"
               ELSE IF is_follow_up
                    THEN /\ pc' = "top"
                         /\ last_handler' = [for |-> "LISTENING", out |-> "IDLE"]
                         /\ state' = "IDLE"
                         /\ sp_pc' = "none"
                    ELSE /\ pc' = "listen_retry"
                         /\ sp_pc' = "synth"
                         /\ state' = "LISTENING"]_vars
    /\ [][(pc = "listen_retry" /\ pc' # "listen_retry") =>
            /\ pc' = "top"
            /\ last_handler' = [for |-> "LISTENING", out |-> "IDLE"]
            /\ state' = "IDLE"
            /\ ~vad_active' /\ ~is_recording']_vars

\* C18 witness: the wake-word variant recorded enough frames but the VAD saw
\* no speech; the retry prompt is being spoken with VAD and recording stopped
C18_Witness ==
    /\ pc = "listen_retry"
    /\ sp_pc = "play"
    /\ recorded_audio >= MinSamples
    /\ ~speech_detected
    /\ ~vad_active
    /\ ~is_recording

C20_FastIntentPath ==
    /\ pc = "proc_fast" =>
          /\ route_calls = <<"mute">>
          /\ route_mode = "MUTED"
          /\ response_text = "fast"
          /\ agent_pc = "none" /\ tts_pc = "none" /\ mon_pc = "none"
          /\ ~thinking
    /\ (pc = "top" /\ route_calls # <<>>) =>
          /\ route_calls = <<"mute", "unmute">>
          /\ route_mode = "NORMAL"
          /\ response_text = "fast"
          /\ last_handler = [for |-> "PROCESSING", out |-> "SPEAKING"]
          /\ state = "SPEAKING"

\* C20 witness: the fast-intent branch has returned after a playback that
\* failed
C20_Witness ==
    /\ pc = "top"
    /\ route_calls = <<"mute", "unmute">>
    /\ sp_failed
    /\ state = "SPEAKING"

(***************************************************************************)
(* Claims about AudioCapture and the VAD (checked under ACSpec)            *)
(***************************************************************************)
\* _audio_callback has returned for a frame
CallbackReturned == cb_pc = "idle" /\ cb_frame # 0

\* The listeners the dispatch loop of the last callback iterated
Dispatched == DispatchList(cb_mode, on_audio_frame, on_stop_word_frame)

\* C12 (as claimed): when the callback has returned for a frame, a MUTED
\* frame was received by no listener, a STOP_ONLY frame by every stop-word
\* listener and no general listener, a NORMAL frame by every general
\* listener and no stop-word listener, and no listener received it twice.
C12_DeliveryFollowsRouteMode ==
    /\ \A l \in Listeners : got[l] <= 1
    /\ CallbackReturned =>
          CASE cb_mode = "MUTED" -> \A l \in Listeners : got[l] = 0
            [] cb_mode = "STOP_ONLY" ->
                  /\ \A l \in Range(on_stop_word_frame) : got[l] = 1
                  /\ \A l \in Range(on_audio_frame) : got[l] = 0
            [] OTHER ->
                  /\ \A l \in Range(on_audio_frame) : got[l] = 1
                  /\ \A l \in Range(on_stop_word_frame) : got[l] = 0

\* C13 (as claimed): when the callback has returned for a frame, in whatever
\* route mode, the frame was appended to the ring buffer and is its newest
\* entry.
C13_EveryFrameIsStored ==
    CallbackReturned =>
        /\ cb_stored
        /\ ring_buffer # <<>>
        /\ ring_buffer[Len(ring_buffer)] = cb_frame

\* C14: the callback never ends with an exception; when it has returned for
\* a frame that is not MUTED, every listener of the mode was called once,
\* every listener that did not itself raise received the frame, whatever
\* the listeners before it did, and the frame is in the ring buffer.
C14_ListenerFaultIsIsolated ==
    /\ cb_pc # "raised"
    /\ (CallbackReturned /\ cb_mode # "MUTED") =>
          /\ \A l \in Range(Dispatched) :
                /\ calls[l] = 1
                /\ l \notin raised_by => got[l] = 1
          /\ cb_stored

\* C14 witness: the first listener of the mode raised, the second one
\* received the frame all the same
C14_Witness ==
    /\ CallbackReturned
    /\ Len(Dispatched) = 2
    /\ Dispatched[1] \in raised_by
    /\ got[Dispatched[1]] = 1
    /\ Dispatched[2] \notin raised_by
    /\ got[Dispatched[2]] = 1
    /\ cb_stored

\* C15: the recording buffer is empty whenever is_recording is false.
C15_IdleBufferIsEmpty ==
    ~is_recording => recording_buffer = <<>>

\* C15 witness: stop_recording has ended a recording that held frames while
\* the callback is at work on a later frame
C15_Witness ==
    /\ ~is_recording
    /\ rec_pc = "stopped"
    /\ rec_result # <<>>
    /\ cb_pc \in {"lock", "dispatch"}
    /\ cb_frame > rec_result[Len(rec_result)]

\* C16: when stop_recording has returned, it returned the frames the
\* callback appended since the matching start_recording, in capture order
\* and each once, the buffer is empty and is_recording is false.
C16_StopReturnsTheRecording ==
    rec_pc = "stopped" =>
        /\ rec_result = appended
        /\ \A i, j \in 1..Len(rec_result) : i < j => rec_result[i] < rec_result[j]
        /\ recording_buffer = <<>>
        /\ ~is_recording

\* C16 witness: a recording of two frames that began after the first frame
\* of the stream was returned
C16_Witness ==
    /\ rec_pc = "stopped"
    /\ Len(rec_result) = 2
    /\ rec_result[1] > 1

\* C17 (as claimed): no access to the ring buffer, the recording buffer or
\* the route mode of AudioCapture, or to the energy threshold of the VAD,
\* was made without the lock of the component.
C17_SharedStateUnderLock ==
    unlocked = {}


FrameStep == ~frame_done /\ frame_done'

\* C21: within one armed session, once had_speech is true it stays true
\* under every later process_frame() and stop(); only start() resets it,
\* and start() leaves it false.
C21_HadSpeechIsSticky ==
    [][/\ (speech_detected /\ ~speech_detected' => vad_op' = "start")
       /\ (vad_op' = "start" => ~speech_detected')]_vars

\* The speech flag has survived the end of its session by stop()
C21_Witness ==
    speech_detected /\ vad_op = "stop" /\ ~vad_active /\ now > start_time

\* C22: while the detector is armed, the first frame processed after more
\* than max_recording_sec since start() sets the end-of-speech latch.
C22_MaxRecordingSetsLatch ==
    [][FrameStep /\ vad_active /\ now - start_time > MaxRecordingTicks
          => speech_ended']_vars

\* C23: process_frame sets the latch only when the session is older than
\* max_recording_sec, or speech was detected and the silence since the last
\* speech frame exceeds silence_timeout_sec; it deactivates the detector in
\* the same step; without a speech frame only the age of the session ends it.
C23_LatchOnlyOnEndConditions ==
    [][FrameStep /\ ~speech_ended /\ speech_ended'
          => /\ ~vad_active'
             /\ \/ now - start_time > MaxRecordingTicks
                \/ /\ speech_detected'
                   /\ now - last_speech_time' > SilenceTimeoutTicks
             /\ (~speech_detected' => now - start_time > MaxRecordingTicks)]_vars

\* A frame has ended the session by the silence condition
C23_Witness ==
    /\ vad_op = "frame"
    /\ speech_ended /\ ~vad_active
    /\ speech_detected
    /\ now - start_time <= MaxRecordingTicks
    /\ now - last_speech_time > SilenceTimeoutTicks

\* C24: the energy threshold is never negative, and it grows only in
\* set_energy_threshold; apart from that only process_frame changes it.
C24_ThresholdOnlyDecays ==
    /\ [](energy_threshold >= 0)
    /\ [][/\ (energy_threshold' > energy_threshold => vad_op' = "set")
          /\ (energy_threshold' # energy_threshold
                 => vad_op' = "set" \/ FrameStep)]_vars

\* A frame has decayed a positive threshold
C24_Witness ==
    /\ vad_op = "frame"
    /\ energy_threshold > 0
    /\ energy_threshold < armed_threshold

\* C25: with a threshold T0 set and the detector armed at t0, and every
\* frame of the stream processed since, the threshold is T0 * r^n once n
\* whole seconds have elapsed since t0.
C25_OneDecayPerSecond ==
    vad_active /\ steady /\ vad_op = "frame" /\ frame_done
       => energy_threshold =
             Decayed(armed_threshold, (now - start_time) \div Second)

\* C36 (as claimed): while the detector is armed with an energy threshold
\* T > 0, a frame the classifier marks as speech qualifies (sets
\* speech_detected and refreshes the last-speech time) only if its RMS
\* exceeds T; with T = 0 every such frame qualifies; a frame the classifier
\* rejects never qualifies.
C36_EnergyGate ==
    [][(FrameStep /\ vad_active) =>
        LET qualifies == speech_detected' /\ last_speech_time' = now
        IN  /\ (gate'.cls # "speech" => ~qualifies)
            /\ (gate'.cls = "speech" /\ energy_threshold = 0 => qualifies)
            /\ (gate'.cls = "speech" /\ energy_threshold > 0 /\ qualifies
                    => gate'.rms > energy_threshold)]_vars

(***************************************************************************)
(* Claims about the LISTENING session in time (checked under SessSpec)     *)
(***************************************************************************)
\* C26: a session whose frames are speech followed by silence for longer
\* than the silence timeout ends through the detector's latch with
\* had_speech true, and stop_recording() returns the speech frames.
C26_SpeechThenSilenceSession ==
    /\ sess.pc = "idle" /\ sess.out # "none"
    /\ sess.clean
    /\ sess.speech >= 1
    /\ sess.quiet > SilenceTimeoutTicks
    => /\ sess.how = "latch"
       /\ speech_detected
       /\ recorded_audio = sess.speech

(***************************************************************************)
(* Claims about the audio cache (checked under CacheSpec)                  *)
(***************************************************************************)
\* The step is a call of _synthesize_cached
LookupStep == tts_ret' # tts_ret /\ tts_ret'.op = "lookup"

\* C28: while a key stays cached its entry does not change and no text
\* with that key is synthesized again; a lookup of such a text returns the
\* audio first stored, which no fade-out of audio returned earlier has
\* touched.
C28_CachedAudioIsStable ==
    /\ [](\A k \in CacheKeys : ~tts_cache[k].faded)
    /\ [][\A k \in CacheKeys :
             tts_cache[k] # NoAudio /\ tts_cache'[k] # NoAudio
                => tts_cache'[k] = tts_cache[k]]_vars
    /\ [][LookupStep /\ tts_cache[CacheKey(tts_ret'.text)] # NoAudio
             => /\ ~tts_ret'.synth
                /\ tts_ret'.audio = tts_cache[CacheKey(tts_ret'.text)]
                /\ ~tts_ret'.audio.faded]_vars
    /\ [][LookupStep /\ tts_ret'.synth
             => tts_cache[CacheKey(tts_ret'.text)] = NoAudio]_vars

\* A lookup was served from the entry another spelling of the text stored
C28_Witness ==
    /\ tts_ret.op = "lookup"
    /\ tts_ret.hit
    /\ tts_ret.audio.text # tts_ret.text
    /\ CacheKey(tts_ret.audio.text) = CacheKey(tts_ret.text)

\* C29: the cache never holds more than _TTS_CACHE_MAX entries, and the
\* entry evicted by an insertion into a full cache is the one looked up
\* least recently (a hit counts as a use).
C29_EvictsLeastRecentlyUsed ==
    /\ [](Cardinality({k \in CacheKeys : tts_cache[k] # NoAudio}) <= TtsCacheMax)
    /\ [][\A k \in CacheKeys :
             tts_cache[k] # NoAudio /\ tts_cache'[k] = NoAudio
                => k = Head(use_order)]_vars

(***************************************************************************)
(* Claims about the tool loop of the agent (checked under ToolSpec)        *)
(***************************************************************************)
\* C30: process and process_streaming run at most 5 rounds of model
\* request plus tool execution, and when the model still asks for tools in
\* the 5th round they return REQUEST_TOO_COMPLEX and nothing else.
C30_ToolLoopFallsBack ==
    /\ tool.rounds <= ToolRounds
    /\ tool.pc = "done" /\ tool.rounds = ToolRounds /\ tool.last = "tools"
          => /\ tool.result = "REQUEST_TOO_COMPLEX"
             /\ tool.requests = ToolRounds

(***************************************************************************)
(* Claims about the interrupt monitor and the streamed playback (checked   *)
(* under Spec)                                                             *)
(***************************************************************************)

\* The agent has been invoked for the turn and the playback of its response
\* has not ended
AgentOrPlayback ==
    pc \in {"std_agent", "std_speak", "stream_agent", "stream_tts"}

\* C33 (as claimed): from the invocation of the agent until the playback of
\* the response ends, the monitor task is polling for the wake word unless
\* it has reported a detection; and within that span the monitor never
\* ends on a poll that timed out.
C33_MonitorCoversAgentAndPlayback ==
    /\ [](AgentOrPlayback =>
            (mon_pc = "poll" \/ (mon_pc = "done" /\ barge_in)))
    /\ [][(mon_pc = "poll" /\ mon_pc' # "poll" /\ AgentOrPlayback')
            => (waiters[mon_w].pc = "done" /\ waiters[mon_w].det)]_vars

\* C34: speak_streamed plays the units in the order they were put on the
\* queue (the agent numbers them in that order), each at most once; a
\* prefetch task is created only when the previous one has been collected
\* and no prefetched unit is held any more; and whenever a prefetched unit
\* is held, it is the next unit played.
C34_PlaysInQueueOrder ==
    /\ [](\A i \in 1..(Len(units.played) - 1) :
            units.played[i] < units.played[i + 1])
    /\ [][(pre_pc' = "start" /\ units'.played # units.played)
            => (pre_pc \in {"none", "done"} /\ pre_res' = 0)]_vars
    /\ [][(units'.played # units.played /\ units'.played # <<>> /\ pre_res # 0)
            => units'.played = Append(units.played, pre_res)]_vars

\* C34 witness: the second unit is playing, the first was played before it,
\* and the error message queued after them has been taken by the prefetch
\* task
C34_Witness ==
    /\ units.played = <<1, 2>>
    /\ tts_pc = "play" /\ cur_unit = 2
    /\ pre_pc = "synth" /\ pre_res = ErrUnit

IdleBlocked ==
    \E w \in Waiters : waiters[w].owner = "idle" /\ waiters[w].pc # "done"

\* C38 (as claimed): a detection that fires while the IDLE handler is
\* blocked in wait_for_detection is consumed by that wait and by no other
\* one, the wait returns true, and the handler leaves IDLE for LISTENING,
\* also while a wait of a cancelled monitor is still in its worker thread.
C38_DetectionWakesIdle ==
    /\ [](\A w \in Waiters :
            (waiters[w].owner = "idle" /\ waiters[w].pc = "done")
                => waiters[w].det)
    /\ [][(IdleBlocked /\ detected /\ ~detected')
            => \E w \in Waiters :
                  /\ waiters[w].owner = "idle" /\ waiters[w].pc = "read"
                  /\ waiters'[w].pc = "done" /\ waiters'[w].det]_vars
    /\ [][(pc = "idle_wait" /\ pc' # "idle_wait") => state' = "LISTENING"]_vars

\* C39: whenever a LISTENING handler calls start_recording(), and as long
\* as the IDLE handler waits for the wake word, the route mode of the
\* capture is NORMAL, whatever turns came before.
C39_RouteNormalWhenListening ==
    /\ [](pc = "idle_wait" => route_mode = "NORMAL")
    /\ [][(~is_recording /\ is_recording') => route_mode = "NORMAL"]_vars

\* C39 witness: a follow-up recording starts after a turn that was spoken
\* in streaming mode while the monitor's last poll is still in its thread
C39_Witness ==
    /\ is_recording /\ is_follow_up
    /\ state = "LISTENING"
    /\ route_mode = "NORMAL"
    /\ response_text = "agent"
    /\ \E w \in Waiters : waiters[w].owner = "orphan_monitor"

(***************************************************************************)
(* Claim about the fast-intent registry (checked under IntentSpec)         *)
(***************************************************************************)

\* The intents of the registry seen by the call with a pattern that the text
\* contains, whatever the case and the surrounding blanks of the text
Matching == { i \in 1..Len(intent.seen) :
                \E j \in 1..Len(intent.seen[i].patterns) :
                    intent.seen[i].patterns[j] = intent.text.word }

\* C31: match_and_execute tries the intents in registration order and the
\* patterns of an intent in list order; it runs only the handler of the
\* first intent with a matching pattern, with that intent's args, and
\* returns its result; if that handler raises it returns the generic error
\* string; if nothing matches it returns None and runs no handler.
C31_FirstMatchingIntentRuns ==
    intent.op = "match" =>
        IF Matching = {}
        THEN intent.result = NoResult /\ intent.called = <<>>
        ELSE LET first == CHOOSE i \in Matching : \A k \in Matching : i <= k
                 it == intent.seen[first]
             IN  /\ intent.hit = first
                 /\ it.patterns[intent.pattern] = intent.text.word
                 /\ \A j \in 1..(intent.pattern - 1) :
                        it.patterns[j] # intent.text.word
                 /\ intent.called = <<it.handler.name>>
                 /\ intent.result =
                        IF it.handler.raises
                        THEN [kind |-> "error", by |-> "none", args |-> "none"]
                        ELSE [kind |-> "value", by |-> it.handler.name,
                              args |-> it.args]

\* Two intents match an upper-case padded text, the first one's handler
\* raises and the second one's would not
C31_Witness ==
    /\ intent.op = "match"
    /\ intent.text.upper /\ intent.text.padded
    /\ Matching = {1, 2}
    /\ intent.seen[1].handler.raises /\ ~intent.seen[2].handler.raises
    /\ intent.seen[1].patterns = <<"b", "a">> /\ intent.text.word = "a"
    /\ intent.result.kind = "error"

(***************************************************************************)
(* Claim about the HTTP client (checked under HttpSpec)                    *)
(***************************************************************************)

\* A request_with_retry call begins in this step
CallStep == http.pc = "idle" /\ http'.step \in {"call", "circuit_open"}

\* C37 (as claimed): once the failed attempts for the host have reached 3
\* with no successful response in between, every request_with_retry call
\* of the next 20 s raises "Circuit open" without attempting a request; and
\* a successful response resets the failure count to 0.
C37_CircuitOpensForTwentySeconds ==
    /\ [][(CallStep /\ http.tripped_at >= 0
            /\ http.time < http.tripped_at + CircuitOpenTicks)
           => http'.step = "circuit_open"]_vars
    /\ [][(http' # http /\ http'.step = "response") => http'.fails = 0]_vars

(***************************************************************************)
(* Claim about the stop-word listener (checked under StopWordSpec)         *)
(***************************************************************************)

\* C40 (as claimed): wait_for_detection returns true only if, since the
\* last start(), a frame processed while the listener was active passed the
\* energy gate and scored above the detection threshold; stop() and
\* timeouts never make it return true.
C40_WaitReportsOnlyDetections ==
    stopw.ret = "true" => stopw.qualified

=============================================================================
